---- MODULE Spec2Model ----
(***************************************************************************)
(* A model of the delta-synchronization engine of mbrdg/xp: the GSet       *)
(* replicas and the four synchronization protocols of src/src/sync/, the   *)
(* tracker of src/src/tracker.rs, the Bloom filter of crates/bloom and the *)
(* lattice types of crates/crdt and src/src/crdt.rs.                       *)
(*                                                                         *)
(* One protocol session (Protocol::sync) is a sequence of steps, one per   *)
(* message: every step ends with the tracker.register (or tracker.finish)  *)
(* call that closes it.  A panic of the code (a failed assert!, a          *)
(* remainder by zero) is the terminal position pc = "panic".               *)
(***************************************************************************)
EXTENDS Integers, Sequences, FiniteSets, TLC

VARIABLES
    \* ---- a protocol session (src/src/sync/*.rs) ----
    proto,                \* which Protocol implementation runs
    local, remote,        \* the two GSet<String> replicas of the protocol struct
    local0, remote0,      \* history: the replicas when sync was called
    load_factor,          \* builder's load factor, a ratio <<num, den>>
    num_buckets,          \* Buckets::num_buckets, fixed by BucketsBuilder::build
    hasher,               \* the session's RandomState: item -> u64
    pc,                   \* position inside sync
    events, diffs,        \* DefaultTracker::events, DefaultTracker::diffs
    finish_calls,         \* history: number of tracker.finish calls
    local_split,          \* Vec of the local decompositions (Bloom, BloomBuckets)
    local_filter, remote_filter,
    local_unseen,         \* local_unseen / local_unkown: what is to be joined into local
    remote_unseen,        \* remote_unseen / remote_unknown: what is to be joined into remote
    local_escaped,        \* BloomBuckets: the false positives shipped back to local
    local_buckets, remote_buckets,
    non_matching_buckets,
    \* ---- lattice values (crates/crdt, src/src/crdt.rs) ----
    kind,                 \* which lattice type is exercised
    gsA, gsB, gsC,        \* GSet values
    gcA, gcB, gcC,        \* GCounter values
    awA, awB,             \* AWSet replicas
    dcA,                  \* a DotContext value
    overflow_checks,      \* build profile: debug (TRUE) or release (FALSE)
    out,                  \* what the last operation applied to the values returned
    \* ---- construction of filters and protocols, and use of a filter ----
    cfg,                  \* the constructor called and its arguments
    built,                \* what the constructor returned
    filter,               \* the BloomFilter constructed
    inserted,             \* history: the items passed to insert
    faulted,              \* insert or contains has panicked
    query,                \* the last contains call and its answer
    \* ---- what the caller of the library has done ----
    calls,                \* history: the register and finish calls made on a
                          \* DefaultTracker driven directly, in order
    runs                  \* history: the number of sync calls on the protocol

protoVars == <<proto, local, remote, local0, remote0, load_factor, num_buckets,
               hasher, pc, events, diffs, finish_calls, local_split, local_filter,
               remote_filter, local_unseen, remote_unseen, local_escaped,
               local_buckets, remote_buckets, non_matching_buckets>>
latticeVars == <<kind, gsA, gsB, gsC, gcA, gcB, gcC, awA, awB, dcA,
                 overflow_checks, out>>
constructVars == <<cfg, built, filter, inserted, faulted, query>>
callerVars == <<calls, runs>>
vars == <<protoVars, latticeVars, constructVars, callerVars>>

(***************************************************************************)
(* Small helpers.                                                          *)
(***************************************************************************)
Max(a, b) == IF a >= b THEN a ELSE b
Min(a, b) == IF a <= b THEN a ELSE b

RECURSIVE SetToSeq(_)
\* A Vec collected from a HashSet / HashMap iteration: every element once.
\* The iteration order is unspecified; nothing below depends on it.
SetToSeq(S) ==
    IF S = {} THEN <<>>
    ELSE LET x == CHOOSE y \in S : TRUE IN <<x>> \o SetToSeq(S \ {x})

SeqRange(s) == {s[i] : i \in DOMAIN s}

RECURSIVE SumSeq(_)
SumSeq(s) == IF s = <<>> THEN 0 ELSE Head(s) + SumSeq(Tail(s))

(***************************************************************************)
(* The replicas' elements: strings, with their byte lengths (String::len). *)
(***************************************************************************)
Items == {"a", "bb", "cccccccc"}

StrLen(s) == CASE s = "a" -> 1 [] s = "bb" -> 2 [] s = "cccccccc" -> 8

(***************************************************************************)
(* GSet<T> of the binary crate (src/src/lib.rs): a wrapper of a HashSet.   *)
(***************************************************************************)
GSetNew == {}

\* Decomposable::split: one single-element GSet per element
GSetSplit(self) == [i \in 1..Cardinality(self) |-> {SetToSeq(self)[i]}]

\* A plausible slip: the deltas replace the base
GSetJoinReplacing(self, deltas) == UNION SeqRange(deltas)

\* Decomposable::join: extend the base with every delta of the Vec
GSetJoin(self, deltas) == self \cup UNION SeqRange(deltas)

\* A plausible slip: difference taken the wrong way round
GSetDifferenceSwapped(self, other) == other \ self

\* Decomposable::difference
GSetDifference(self, other) == self \ other

\* HashSet::symmetric_difference(..).count() of the sanity checks
SymmetricDifferenceCount(a, b) == Cardinality((a \ b) \cup (b \ a))

RECURSIVE SumLen(_)
SumLen(S) ==
    IF S = {} THEN 0
    ELSE LET x == CHOOSE y \in S : TRUE IN StrLen(x) + SumLen(S \ {x})

\* A plausible slip: the elements are counted, not measured
SizeOfCounting(replica) == Cardinality(replica)

\* ReplicaSize::size_of: the sum of the elements' lengths
size_of(replica) == SumLen(replica)

\* A plausible slip: the deltas are counted, not measured
SizeOfAllCounting(deltas) == Len(deltas)

\* .iter().map(size_of).sum() over a Vec of GSets
SizeOfAll(deltas) == SumSeq([i \in DOMAIN deltas |-> size_of(deltas[i])])

(***************************************************************************)
(* DefaultTracker (src/src/tracker.rs).  diffs is an Option<usize>: the    *)
(* empty set is None, {d} is Some(d).  An event's duration is derived from *)
(* its bytes and a bandwidth and is left out.                              *)
(***************************************************************************)
\* A plausible slip: the wrong constructor is called
LocalToRemoteAsDownload(bytes) == [dir |-> "RemoteToLocal", bytes |-> bytes]

\* NetworkEvent::local_to_remote and NetworkEvent::remote_to_local
LocalToRemote(bytes) == [dir |-> "LocalToRemote", bytes |-> bytes]
RemoteToLocal(bytes) == [dir |-> "RemoteToLocal", bytes |-> bytes]

\* A plausible slip: the latch is not looked at
IsReadyNoEvents(evs, d) == evs = <<>>

\* A plausible slip: the events are not looked at
IsReadyNotFinished(evs, d) == d = {}

\* Tracker::is_ready
is_ready(evs, d) == evs = <<>> /\ d = {}

\* A plausible slip: the event is put at the front
RegisterAtFront(evs, d, e) == IF d = {} THEN <<e>> \o evs ELSE evs

\* Tracker::register
Register(evs, d, e) == IF d = {} THEN Append(evs, e) ELSE evs

\* A plausible slip: the latch is overwritten by every call
FinishOverwriting(d, n) == {n}

\* A plausible slip: the reported count is off by one
FinishOffByOne(d, n) == IF d = {} THEN {n + 1} ELSE d

\* Tracker::finish
Finish(d, n) == IF d = {} THEN {n} ELSE d

(***************************************************************************)
(* BloomFilter (crates/bloom/src/lib.rs), whose new(capacity, fpr) is the  *)
(* constructor the protocols call.  The protocols build every filter with  *)
(* the default false positive rate 0.01, for which                         *)
(* k = ceil(-ln 0.01 / ln 2) = 7 and m = ceil(capacity * 9.585058...), at  *)
(* least one bit.  A filter's two RandomStates are a map from the items to *)
(* pairs of hash values.                                                   *)
(***************************************************************************)
NumHashes == 7
BitsPerItemMicro == 9585059

\* m of BloomFilter::new: the ceiling of capacity * -ln(fpr) / LN_2^2
OptimalBits(capacity) == (capacity * BitsPerItemMicro + 999999) \div 1000000

\* the pairs (h.0, h.1) a filter's hashers may give an item
FilterHashPairs == {<<0, 1>>, <<1, 0>>}

\* hashers: [RandomState::new(), RandomState::new()], over the items hashed
FilterHashers(hashed) == [hashed -> FilterHashPairs]

\* BloomFilter::new(capacity, 0.01): max(m, 1) zeroed bits, fresh hashers
BloomFilterNew(capacity, hs) ==
    [m |-> Max(OptimalBits(capacity), 1), k |-> NumHashes, bits |-> {},
     hashers |-> hs]

NoFilter == [m |-> 0, k |-> 0, bits |-> {}, hashers |-> <<>>]

\* the i-th probed bit: (h.0 + i * h.1) % self.arr.len()
BitOf(f, value, i) ==
    (f.hashers[value][1] + i * f.hashers[value][2]) % f.m

\* A plausible slip: the bits of the value replace the bits set so far
BloomInsertReplacing(f, value) ==
    [f EXCEPT !.bits = {BitOf(f, value, i) : i \in 0..(f.k - 1)}]

\* BloomFilter::insert: the k probed bits are set
BloomInsert(f, value) ==
    [f EXCEPT !.bits = @ \cup {BitOf(f, value, i) : i \in 0..(f.k - 1)}]

\* BloomFilter::contains
BloomContains(f, value) ==
    \A i \in 0..(f.k - 1) : BitOf(f, value, i) \in f.bits

\* the single item of a decomposition (elements().iter().next())
ItemOf(delta) == CHOOSE x \in delta : TRUE

RECURSIVE InsertAll(_, _)
InsertAll(f, decompositions) ==
    IF decompositions = <<>> THEN f
    ELSE InsertAll(BloomInsert(f, ItemOf(Head(decompositions))),
                   Tail(decompositions))

\* BuildBloomFilters::filter: a filter sized for the decompositions, holding them
Filter(decompositions, hs) ==
    InsertAll(BloomFilterNew(Len(decompositions), hs), decompositions)

SizeOfRandomState == 16

\* size_of_filter: the bits rounded up to bytes, plus the two hashers
SizeOfFilter(f) == (f.m \div 8) + Min(1, f.m % 8) + 2 * SizeOfRandomState

\* A plausible slip: nothing is reported as held by the filter
InFilterNone(f, deltas) == <<>>

\* the decompositions the filter reports as held
InFilter(f, deltas) ==
    SelectSeq(deltas, LAMBDA delta : BloomContains(f, ItemOf(delta)))

\* A plausible slip: nothing is reported as missing from the filter
NotInFilterNone(f, deltas) == <<>>

\* the decompositions the filter reports as not held
NotInFilter(f, deltas) ==
    SelectSeq(deltas, LAMBDA delta : ~BloomContains(f, ItemOf(delta)))

(***************************************************************************)
(* Buckets (src/src/sync/buckets.rs).  The session's hasher gives every    *)
(* item a u64; distinct items get distinct values.  A bucket is a          *)
(* BTreeMap from hash values to decompositions; an Option is a sequence of *)
(* length at most one.  A load factor is a ratio <<num, den>>.             *)
(***************************************************************************)
HashValues == {1, 2, 12}

Hashers == {h \in [Items -> HashValues] : \A x, y \in Items : h[x] = h[y] => x = y}

DefaultHasher == [x \in Items |-> CASE x = "a" -> 1 [] x = "bb" -> 2 [] x = "cccccccc" -> 12]

LoadFactors == {<<1, 2>>, <<1, 1>>, <<2, 1>>}

DefaultLoadFactor == <<1, 1>>

\* (len as f64 * load_factor) as usize: the product, truncated
NumBuckets(len, lf) == (len * lf[1]) \div lf[2]

\* hash % buckets.len() with no bucket is a remainder by zero
BucketsPanic(replica, n) == n = 0 /\ replica # {}

\* BuildBuckets::buckets: the decomposition of hash value v goes to bucket v % n
BuildBuckets(replica, h, n) ==
    [i \in 1..n |->
        LET members == {x \in replica : h[x] % n = i - 1}
        IN [key \in {h[x] : x \in members} |->
               {CHOOSE x \in members : h[x] = key}]]

RECURSIVE Decimal(_)
\* format!("{f}") of a u64: its decimal digits
Decimal(n) == IF n < 10 THEN <<n>> ELSE Decimal(n \div 10) \o <<n % 10>>

RECURSIVE SortedSeq(_)
\* BTreeMap::keys: the keys in ascending order
SortedSeq(S) ==
    IF S = {} THEN <<>>
    ELSE LET lo == CHOOSE x \in S : \A y \in S : x <= y
         IN <<lo>> \o SortedSeq(S \ {lo})

RECURSIVE ConcatDecimals(_)
\* fold(String::new(), |acc, f| format!("{acc}{f}"))
ConcatDecimals(keys) ==
    IF keys = <<>> THEN <<>>
    ELSE Decimal(Head(keys)) \o ConcatDecimals(Tail(keys))

\* the fingerprint string of one bucket
FingerprintString(bucket) == ConcatDecimals(SortedSeq(DOMAIN bucket))

\* BuildBuckets::hashes: hasher.hash_one(fingerprint) per bucket; the hash
\* of the string is taken to be collision free and stands as the string
Hashes(buckets) == [i \in DOMAIN buckets |-> FingerprintString(buckets[i])]

\* state.join(Vec::from_iter(bucket.into_values())) on a new GSet
Aggregate(bucket) ==
    GSetJoin(GSetNew, [i \in 1..Len(SortedSeq(DOMAIN bucket)) |->
                          bucket[SortedSeq(DOMAIN bucket)[i]]])

None == <<>>
Some(s) == <<s>>

\* A plausible slip: only the buckets that do not match are collected
NonMatchingBucketsSparse(buckets, hashes, other_hashes) ==
    LET n == Min(Len(buckets), Min(Len(hashes), Len(other_hashes)))
        kept == SelectSeq([i \in 1..n |-> i], LAMBDA i : hashes[i] # other_hashes[i])
    IN [j \in DOMAIN kept |-> Some(Aggregate(buckets[kept[j]]))]

\* zip(buckets, matchings).map(|(bucket, matching)| (!matching).then(aggregate))
NonMatchingBuckets(buckets, hashes, other_hashes) ==
    [i \in 1..Min(Len(buckets), Min(Len(hashes), Len(other_hashes))) |->
        IF hashes[i] = other_hashes[i] THEN None ELSE Some(Aggregate(buckets[i]))]

\* A plausible slip: the buckets shipped are counted, not measured
SizeOfSomeCounting(options) ==
    Len(SelectSeq(options, LAMBDA o : o # None))

\* .iter().flatten().map(size_of).sum()
SizeOfSome(options) ==
    SumSeq([i \in DOMAIN options |->
               IF options[i] = None THEN 0 ELSE size_of(options[i][1])])

\* zip(own, options).flat_map(|(own, other)| Some(own).zip(other)): the indices kept
ZippedIndices(own_buckets, options) ==
    SelectSeq([i \in 1..Min(Len(own_buckets), Len(options)) |-> i],
              LAMBDA i : options[i] # None)

\* per kept pair, other.difference(own): what the buckets' owner has not seen
UnseenByOwner(own_buckets, options) ==
    [j \in 1..Len(ZippedIndices(own_buckets, options)) |->
        LET i == ZippedIndices(own_buckets, options)[j]
        IN GSetDifference(options[i][1], Aggregate(own_buckets[i]))]

\* per kept pair, own.difference(other): what the sender of the options has not seen
UnseenBySender(own_buckets, options) ==
    [j \in 1..Len(ZippedIndices(own_buckets, options)) |->
        LET i == ZippedIndices(own_buckets, options)[j]
        IN GSetDifference(Aggregate(own_buckets[i]), options[i][1])]

(***************************************************************************)
(* The values of the variables a specification does not use.               *)
(***************************************************************************)
NoSession ==
    /\ proto = "none" /\ pc = "idle"
    /\ local = {} /\ remote = {} /\ local0 = {} /\ remote0 = {}
    /\ load_factor = DefaultLoadFactor /\ num_buckets = 0 /\ hasher = DefaultHasher
    /\ events = <<>> /\ diffs = {} /\ finish_calls = 0
    /\ local_split = <<>> /\ local_filter = NoFilter /\ remote_filter = NoFilter
    /\ local_unseen = <<>> /\ remote_unseen = <<>> /\ local_escaped = <<>>
    /\ local_buckets = <<>> /\ remote_buckets = <<>> /\ non_matching_buckets = <<>>

NoOut == [op |-> "none"]

NoLattice ==
    /\ kind = "none"
    /\ gsA = {} /\ gsB = {} /\ gsC = {}
    /\ gcA = <<>> /\ gcB = <<>> /\ gcC = <<>>
    /\ awA = <<>> /\ awB = <<>>
    /\ dcA = <<>> /\ overflow_checks = FALSE
    /\ out = NoOut

\* no call has been made to a tracker outside a session
NoCalls == calls = <<>>

\* sync has not been called
NoRuns == runs = 0

Pending == [state |-> "pending"]

NoQuery == [op |-> "none"]

NoConstruct ==
    /\ cfg = [ctor |-> "none"]
    /\ built = Pending
    /\ filter = NoFilter /\ inserted = {} /\ faulted = FALSE
    /\ query = NoQuery

(***************************************************************************)
(* A protocol session: the builder's build() followed by sync(tracker)     *)
(* with a new DefaultTracker.                                              *)
(***************************************************************************)
Protocols == {"Baseline", "Bloom", "Buckets", "BloomBuckets"}

InitSession ==
    /\ proto \in Protocols
    /\ local \in SUBSET Items /\ remote \in SUBSET Items
    /\ local0 = local /\ remote0 = remote
    /\ hasher \in (IF proto \in {"Buckets", "BloomBuckets"} THEN Hashers ELSE {DefaultHasher})
    /\ load_factor \in (IF proto \in {"Buckets", "BloomBuckets"}
                        THEN LoadFactors ELSE {DefaultLoadFactor})
    \* BucketsBuilder::build
    /\ num_buckets = (IF proto = "Buckets"
                      THEN NumBuckets(Cardinality(local), load_factor) ELSE 0)
    /\ pc = "start"
    \* DefaultTracker::new
    /\ events = <<>> /\ diffs = {} /\ finish_calls = 0
    /\ local_split = <<>> /\ local_filter = NoFilter /\ remote_filter = NoFilter
    /\ local_unseen = <<>> /\ remote_unseen = <<>> /\ local_escaped = <<>>
    /\ local_buckets = <<>> /\ remote_buckets = <<>> /\ non_matching_buckets = <<>>

Init == InitSession /\ NoLattice /\ NoConstruct /\ NoCalls /\ runs = 1

\* a panic unwinds out of sync: nothing else changes
Panic ==
    /\ pc' = "panic"
    /\ UNCHANGED <<proto, local, remote, local0, remote0, load_factor, num_buckets,
                   hasher, events, diffs, finish_calls, local_split, local_filter,
                   remote_filter, local_unseen, remote_unseen, local_escaped,
                   local_buckets, remote_buckets, non_matching_buckets>>

\* the sanity check that ends every sync: tracker.finish(symmetric difference)
SanityCheck(l, r) ==
    /\ diffs' = Finish(diffs, SymmetricDifferenceCount(l, r))
    /\ finish_calls' = finish_calls + 1
    /\ pc' = "done"

(***************************************************************************)
(* Baseline::sync (src/src/sync/baseline.rs).                              *)
(***************************************************************************)
\* 1. the full local state is shipped to the remote replica
BaselineShip ==
    /\ proto = "Baseline" /\ pc = "start"
    /\ IF ~is_ready(events, diffs) THEN Panic
       ELSE /\ events' = Register(events, diffs, LocalToRemote(size_of(local)))
            /\ pc' = "baseline_remote"
            /\ UNCHANGED <<proto, local, remote, local0, remote0, load_factor,
                           num_buckets, hasher, diffs, finish_calls, local_split,
                           local_filter, remote_filter, local_unseen, remote_unseen,
                           local_escaped, local_buckets, remote_buckets,
                           non_matching_buckets>>
    /\ UNCHANGED <<latticeVars, constructVars, callerVars>>

\* 2. the remote replica computes both deltas, joins its own and ships the other
BaselineRemote ==
    /\ proto = "Baseline" /\ pc = "baseline_remote"
    /\ remote_unseen' = <<GSetDifference(local, remote)>>
    /\ local_unseen' = <<GSetDifference(remote, local)>>
    /\ remote' = GSetJoin(remote, remote_unseen')
    /\ events' = Register(events, diffs, RemoteToLocal(SizeOfAll(local_unseen')))
    /\ pc' = "baseline_local"
    /\ UNCHANGED <<proto, local, local0, remote0, load_factor, num_buckets, hasher,
                   diffs, finish_calls, local_split, local_filter, remote_filter,
                   local_escaped, local_buckets, remote_buckets, non_matching_buckets>>
    /\ UNCHANGED <<latticeVars, constructVars, callerVars>>

\* 3. and 4. the local replica joins the delta; sanity check
BaselineLocal ==
    /\ proto = "Baseline" /\ pc = "baseline_local"
    /\ local' = GSetJoin(local, local_unseen)
    /\ SanityCheck(local', remote)
    /\ UNCHANGED <<proto, remote, local0, remote0, load_factor, num_buckets, hasher,
                   events, local_split, local_filter, remote_filter, local_unseen,
                   remote_unseen, local_escaped, local_buckets, remote_buckets,
                   non_matching_buckets>>
    /\ UNCHANGED <<latticeVars, constructVars, callerVars>>

(***************************************************************************)
(* Bloom::sync (src/src/sync/bloom.rs).                                    *)
(***************************************************************************)
\* 1. the local filter is built from the local split and shipped
BloomShipFilter ==
    /\ proto = "Bloom" /\ pc = "start"
    /\ IF ~is_ready(events, diffs) THEN Panic
       ELSE \E hs \in FilterHashers(local \cup remote) :
            /\ local_split' = GSetSplit(local)
            /\ local_filter' = Filter(local_split', hs)
            /\ events' = Register(events, diffs, LocalToRemote(SizeOfFilter(local_filter')))
            /\ pc' = "bloom_remote"
            /\ UNCHANGED <<proto, local, remote, local0, remote0, load_factor,
                           num_buckets, hasher, diffs, finish_calls, remote_filter,
                           local_unseen, remote_unseen, local_escaped, local_buckets,
                           remote_buckets, non_matching_buckets>>
    /\ UNCHANGED <<latticeVars, constructVars, callerVars>>

\* 2. the remote split is partitioned by the local filter; the filter of the
\*    common part and the unknown part are shipped back
BloomRemote ==
    /\ proto = "Bloom" /\ pc = "bloom_remote"
    /\ LET common == InFilter(local_filter, GSetSplit(remote))
       IN \E hs \in FilterHashers(local \cup UNION SeqRange(common)) :
            /\ local_unseen' = NotInFilter(local_filter, GSetSplit(remote))
            /\ remote_filter' = Filter(common, hs)
            /\ events' = Register(events, diffs,
                   RemoteToLocal(SizeOfFilter(remote_filter') + SizeOfAll(local_unseen')))
    /\ pc' = "bloom_local"
    /\ UNCHANGED <<proto, local, remote, local0, remote0, load_factor, num_buckets,
                   hasher, diffs, finish_calls, local_split, local_filter,
                   remote_unseen, local_escaped, local_buckets, remote_buckets,
                   non_matching_buckets>>
    /\ UNCHANGED <<latticeVars, constructVars, callerVars>>

\* 3. the local split is filtered by the remote filter, the local replica
\*    joins what it received and ships what the remote filter does not hold
BloomLocal ==
    /\ proto = "Bloom" /\ pc = "bloom_local"
    /\ remote_unseen' = NotInFilter(remote_filter, local_split)
    /\ local' = GSetJoin(local, local_unseen)
    /\ events' = Register(events, diffs, LocalToRemote(SizeOfAll(remote_unseen')))
    /\ pc' = "bloom_finish"
    /\ UNCHANGED <<proto, remote, local0, remote0, load_factor, num_buckets, hasher,
                   diffs, finish_calls, local_split, local_filter, remote_filter,
                   local_unseen, local_escaped, local_buckets, remote_buckets,
                   non_matching_buckets>>
    /\ UNCHANGED <<latticeVars, constructVars, callerVars>>

\* 4. and 5. the remote replica joins what it received; sanity check
BloomFinish ==
    /\ proto = "Bloom" /\ pc = "bloom_finish"
    /\ remote' = GSetJoin(remote, remote_unseen)
    /\ SanityCheck(local, remote')
    /\ UNCHANGED <<proto, local, local0, remote0, load_factor, num_buckets, hasher,
                   events, local_split, local_filter, remote_filter, local_unseen,
                   remote_unseen, local_escaped, local_buckets, remote_buckets,
                   non_matching_buckets>>
    /\ UNCHANGED <<latticeVars, constructVars, callerVars>>

(***************************************************************************)
(* Buckets::sync (src/src/sync/buckets.rs).                                *)
(***************************************************************************)
\* 1. the local state is dispatched to the buckets; the bucket hashes are shipped
BucketsLocal ==
    /\ proto = "Buckets" /\ pc = "start"
    /\ IF ~is_ready(events, diffs) \/ BucketsPanic(local, num_buckets) THEN Panic
       ELSE /\ local_buckets' = BuildBuckets(local, hasher, num_buckets)
            /\ events' = Register(events, diffs,
                                  LocalToRemote(8 * Len(Hashes(local_buckets'))))
            /\ pc' = "buckets_remote"
            /\ UNCHANGED <<proto, local, remote, local0, remote0, load_factor,
                           num_buckets, hasher, diffs, finish_calls, local_split,
                           local_filter, remote_filter, local_unseen, remote_unseen,
                           local_escaped, remote_buckets, non_matching_buckets>>
    /\ UNCHANGED <<latticeVars, constructVars, callerVars>>

\* 2. the remote state is dispatched the same way; the state of the buckets
\*    whose hashes do not match is shipped back
BucketsRemote ==
    /\ proto = "Buckets" /\ pc = "buckets_remote"
    /\ IF BucketsPanic(remote, num_buckets) THEN Panic
       ELSE /\ remote_buckets' = BuildBuckets(remote, hasher, num_buckets)
            /\ non_matching_buckets' =
                   NonMatchingBuckets(remote_buckets', Hashes(local_buckets),
                                      Hashes(remote_buckets'))
            /\ events' = Register(events, diffs,
                   RemoteToLocal(Len(non_matching_buckets')
                                 + SizeOfSome(non_matching_buckets')))
            /\ pc' = "buckets_local"
            /\ UNCHANGED <<proto, local, remote, local0, remote0, load_factor,
                           num_buckets, hasher, diffs, finish_calls, local_split,
                           local_filter, remote_filter, local_unseen, remote_unseen,
                           local_escaped, local_buckets>>
    /\ UNCHANGED <<latticeVars, constructVars, callerVars>>

\* 3. the local replica computes both differences per bucket received, joins
\*    its own and ships the other
BucketsLocalJoin ==
    /\ proto = "Buckets" /\ pc = "buckets_local"
    /\ local_unseen' = UnseenByOwner(local_buckets, non_matching_buckets)
    /\ remote_unseen' = UnseenBySender(local_buckets, non_matching_buckets)
    /\ local' = GSetJoin(local, local_unseen')
    /\ events' = Register(events, diffs, LocalToRemote(SizeOfAll(remote_unseen')))
    /\ pc' = "buckets_finish"
    /\ UNCHANGED <<proto, remote, local0, remote0, load_factor, num_buckets, hasher,
                   diffs, finish_calls, local_split, local_filter, remote_filter,
                   local_escaped, local_buckets, remote_buckets, non_matching_buckets>>
    /\ UNCHANGED <<latticeVars, constructVars, callerVars>>

\* 4. and 5. the remote replica joins the deltas; sanity check
BucketsFinish ==
    /\ proto = "Buckets" /\ pc = "buckets_finish"
    /\ remote' = GSetJoin(remote, remote_unseen)
    /\ SanityCheck(local, remote')
    /\ UNCHANGED <<proto, local, local0, remote0, load_factor, num_buckets, hasher,
                   events, local_split, local_filter, remote_filter, local_unseen,
                   remote_unseen, local_escaped, local_buckets, remote_buckets,
                   non_matching_buckets>>
    /\ UNCHANGED <<latticeVars, constructVars, callerVars>>

(***************************************************************************)
(* BloomBuckets::sync (src/src/sync/bloombuckets.rs).                      *)
(***************************************************************************)
\* 1. the local filter is built from the local decompositions and shipped
BloomBucketsShipFilter ==
    /\ proto = "BloomBuckets" /\ pc = "start"
    /\ IF ~is_ready(events, diffs) THEN Panic
       ELSE \E hs \in FilterHashers(local \cup remote) :
            /\ local_split' = GSetSplit(local)
            /\ local_filter' = Filter(local_split', hs)
            /\ events' = Register(events, diffs, LocalToRemote(SizeOfFilter(local_filter')))
            /\ pc' = "bloombuckets_remote"
            /\ UNCHANGED <<proto, local, remote, local0, remote0, load_factor,
                           num_buckets, hasher, diffs, finish_calls, remote_filter,
                           local_unseen, remote_unseen, local_escaped, local_buckets,
                           remote_buckets, non_matching_buckets>>
    /\ UNCHANGED <<latticeVars, constructVars, callerVars>>

\* 2. the remote split is partitioned by the local filter; the common part
\*    gives the remote filter and the remote buckets, shipped with the unknown part
BloomBucketsRemote ==
    /\ proto = "BloomBuckets" /\ pc = "bloombuckets_remote"
    /\ LET common == InFilter(local_filter, GSetSplit(remote))
           state == GSetJoin(GSetNew, common)
           n == NumBuckets(Cardinality(state), load_factor)
       IN IF BucketsPanic(state, n) THEN Panic
          ELSE \E hs \in FilterHashers(local \cup state) :
               /\ local_unseen' = NotInFilter(local_filter, GSetSplit(remote))
               /\ remote_filter' = Filter(common, hs)
               /\ num_buckets' = n
               /\ remote_buckets' = BuildBuckets(state, hasher, n)
               /\ events' = Register(events, diffs,
                      RemoteToLocal(SizeOfFilter(remote_filter')
                                    + 8 * Len(Hashes(remote_buckets'))
                                    + SizeOfAll(local_unseen')))
               /\ pc' = "bloombuckets_local"
               /\ UNCHANGED <<proto, local, remote, local0, remote0, load_factor,
                              hasher, diffs, finish_calls, local_split, local_filter,
                              remote_unseen, local_escaped, local_buckets,
                              non_matching_buckets>>
    /\ UNCHANGED <<latticeVars, constructVars, callerVars>>

\* 3. the local decompositions are partitioned by the remote filter; the
\*    common part gives the local buckets; the state of the buckets whose
\*    hashes do not match is shipped with the unknown part
BloomBucketsLocal ==
    /\ proto = "BloomBuckets" /\ pc = "bloombuckets_local"
    /\ LET common == InFilter(remote_filter, local_split)
           state == GSetJoin(GSetNew, common)
           n == Len(Hashes(remote_buckets))
       IN IF BucketsPanic(state, n) THEN Panic
          ELSE /\ remote_unseen' = NotInFilter(remote_filter, local_split)
               /\ local_buckets' = BuildBuckets(state, hasher, n)
               /\ non_matching_buckets' =
                      NonMatchingBuckets(local_buckets', Hashes(local_buckets'),
                                         Hashes(remote_buckets))
               /\ events' = Register(events, diffs,
                      LocalToRemote(Len(non_matching_buckets')
                                    + SizeOfSome(non_matching_buckets')
                                    + SizeOfAll(remote_unseen')))
               /\ pc' = "bloombuckets_remote_join"
               /\ UNCHANGED <<proto, local, remote, local0, remote0, load_factor,
                              num_buckets, hasher, diffs, finish_calls, local_split,
                              local_filter, remote_filter, local_unseen, local_escaped,
                              remote_buckets>>
    /\ UNCHANGED <<latticeVars, constructVars, callerVars>>

\* 4. the remote replica computes both differences per bucket received,
\*    joins the unknown part and its own, and ships the other
BloomBucketsRemoteJoin ==
    /\ proto = "BloomBuckets" /\ pc = "bloombuckets_remote_join"
    /\ local_escaped' = UnseenBySender(remote_buckets, non_matching_buckets)
    /\ remote' = GSetJoin(remote, remote_unseen
                                  \o UnseenByOwner(remote_buckets, non_matching_buckets))
    /\ events' = Register(events, diffs, RemoteToLocal(SizeOfAll(local_escaped')))
    /\ pc' = "bloombuckets_finish"
    /\ UNCHANGED <<proto, local, local0, remote0, load_factor, num_buckets, hasher,
                   diffs, finish_calls, local_split, local_filter, remote_filter,
                   local_unseen, remote_unseen, local_buckets, remote_buckets,
                   non_matching_buckets>>
    /\ UNCHANGED <<latticeVars, constructVars, callerVars>>

\* 5. and 6. the local replica joins what it received; sanity check
BloomBucketsFinish ==
    /\ proto = "BloomBuckets" /\ pc = "bloombuckets_finish"
    /\ local' = GSetJoin(local, local_unseen \o local_escaped)
    /\ SanityCheck(local', remote)
    /\ UNCHANGED <<proto, remote, local0, remote0, load_factor, num_buckets, hasher,
                   events, local_split, local_filter, remote_filter, local_unseen,
                   remote_unseen, local_escaped, local_buckets, remote_buckets,
                   non_matching_buckets>>
    /\ UNCHANGED <<latticeVars, constructVars, callerVars>>

(***************************************************************************)
(* sync called again on the same protocol struct, with a tracker of the    *)
(* caller's choice: a new one, or one that has been used.  The struct      *)
(* keeps its replicas, its load factor, its hasher and, for Buckets, the   *)
(* num_buckets fixed by build(); everything else is local to a call of     *)
(* sync.  The call starts with assert!(tracker.is_ready()): when it fails  *)
(* sync unwinds at once, which is the terminal position pc = "not_ready".  *)
(***************************************************************************)
MaxRuns == 2

\* DefaultTracker::new, and trackers on which the caller has called
\* finish, register, or both
Trackers ==
    {[events |-> <<>>, diffs |-> {}],
     [events |-> <<>>, diffs |-> {0}],
     [events |-> <<LocalToRemote(0)>>, diffs |-> {}],
     [events |-> <<LocalToRemote(0)>>, diffs |-> {1}]}

SyncAgain ==
    /\ proto \in Protocols /\ pc = "done" /\ runs < MaxRuns
    /\ runs' = runs + 1
    /\ \E t \in Trackers :
          /\ events' = t.events /\ diffs' = t.diffs
          /\ finish_calls' = (IF t.diffs = {} THEN 0 ELSE 1)
          /\ IF is_ready(t.events, t.diffs)
             THEN /\ pc' = "start"
                  /\ local0' = local /\ remote0' = remote
                  /\ num_buckets' = (IF proto = "Buckets" THEN num_buckets ELSE 0)
                  /\ local_split' = <<>>
                  /\ local_filter' = NoFilter /\ remote_filter' = NoFilter
                  /\ local_unseen' = <<>> /\ remote_unseen' = <<>>
                  /\ local_escaped' = <<>>
                  /\ local_buckets' = <<>> /\ remote_buckets' = <<>>
                  /\ non_matching_buckets' = <<>>
             ELSE /\ pc' = "not_ready"
                  /\ UNCHANGED <<local0, remote0, num_buckets, local_split,
                                 local_filter, remote_filter, local_unseen,
                                 remote_unseen, local_escaped, local_buckets,
                                 remote_buckets, non_matching_buckets>>
    /\ UNCHANGED <<proto, local, remote, load_factor, hasher, calls>>
    /\ UNCHANGED <<latticeVars, constructVars>>

Next ==
    \/ BaselineShip \/ BaselineRemote \/ BaselineLocal
    \/ BloomShipFilter \/ BloomRemote \/ BloomLocal \/ BloomFinish
    \/ BucketsLocal \/ BucketsRemote \/ BucketsLocalJoin \/ BucketsFinish
    \/ BloomBucketsShipFilter \/ BloomBucketsRemote \/ BloomBucketsLocal
    \/ BloomBucketsRemoteJoin \/ BloomBucketsFinish
    \/ SyncAgain

Spec == Init /\ [][Next]_vars

(***************************************************************************)
(* Properties of the protocol sessions.                                    *)
(***************************************************************************)
Union0 == local0 \cup remote0

Converged == local = Union0 /\ remote = Union0 /\ diffs = {0}

\* C1: Baseline.sync, on any pair of GSet replicas and a ready tracker, does
\* not fail and ends with local == remote == the union of the pre-sync
\* states and diffs == 0.
C1_BaselineConverges ==
    proto = "Baseline" => /\ pc # "panic"
                          /\ pc = "done" => Converged

\* a finished Baseline session in which each replica held something the other did not
C1_Witness ==
    /\ proto = "Baseline" /\ pc = "done"
    /\ local0 \ remote0 # {} /\ remote0 \ local0 # {}
    /\ Converged

\* C2: Buckets.sync, for every pair of replicas and every load factor > 0,
\* completes without failing and ends with local == remote == the union of
\* the pre-sync states and diffs == 0 (the hasher being injective).
C2_BucketsConverges ==
    proto = "Buckets" => /\ pc # "panic"
                         /\ pc = "done" => Converged

\* an element is a false positive of the session's filters: it is only in
\* remote and the local filter accepts it, or only in local and the remote
\* filter accepts it
FalsePositive(x) ==
    \/ x \in remote0 \ local0 /\ BloomContains(local_filter, x)
    \/ x \in local0 \ remote0 /\ BloomContains(remote_filter, x)

\* C3: after Bloom.sync every element of the union of the pre-sync states on
\* which no filter gives a false positive is in both replicas; when no false
\* positive occurs at all, local == remote and diffs == 0.
C3_BloomProgress ==
    (proto = "Bloom" /\ pc = "done") =>
        /\ \A x \in Union0 : ~FalsePositive(x) => x \in local /\ x \in remote
        /\ (\A x \in Union0 : ~FalsePositive(x)) => local = remote /\ diffs = {0}

\* a finished Bloom session with a false positive that stayed on one side and
\* an element without false positive that had to travel
C3_Witness ==
    /\ proto = "Bloom" /\ pc = "done"
    /\ \E x \in Union0 : FalsePositive(x) /\ ~(x \in local /\ x \in remote)
    /\ \E y \in Union0 : /\ ~FalsePositive(y)
                         /\ ~(y \in local0 /\ y \in remote0)
                         /\ y \in local /\ y \in remote

\* C4: after BloomBuckets.sync with the default load factor and an injective
\* hasher, whatever false positives the two filters give, local == remote
\* (== the union of the pre-sync states) and diffs == 0.
C4_BloomBucketsConverges ==
    (proto = "BloomBuckets" /\ load_factor = DefaultLoadFactor /\ pc = "done") =>
        Converged

\* C5, the state part: tracker.finish is called at most once, and a sync
\* that returned has called it once with the cardinality of the symmetric
\* difference of the post-sync replicas, so diffs() == 0 iff local == remote
FinishedOnce ==
    /\ finish_calls <= 1
    /\ pc = "done" => /\ finish_calls = 1
                      /\ diffs = {SymmetricDifferenceCount(local, remote)}
                      /\ (diffs = {0} <=> local = remote)
    /\ pc \notin {"done", "not_ready"} => finish_calls = 0 /\ diffs = {}

\* C5, the step part: finish is the call that ends sync, and no event is
\* registered once it has been called; the steps are those of one call of
\* sync, a later call has a tracker of its own
FinishIsLast ==
    runs' = runs =>
        /\ finish_calls' # finish_calls => pc' = "done"
        /\ finish_calls = 1 => events' = events /\ pc' = pc

RECURSIVE Flatten(_)
\* deltas.into_iter().flat_map(|d| d.elems)
Flatten(deltas) ==
    IF deltas = <<>> THEN <<>> ELSE Head(deltas) \o Flatten(Tail(deltas))

CrateGSetNew == {}

\* GSet::as_delta: a Delta over the entire state
CrateGSetAsDelta(self) == SetToSeq(self)

\* A plausible slip: one Delta holding every element
CrateGSetSplitWhole(self) == IF self = {} THEN <<>> ELSE <<SetToSeq(self)>>

\* Decompose::split: one Delta of a single element per element
CrateGSetSplit(self) == [i \in 1..Cardinality(self) |-> <<SetToSeq(self)[i]>>]

\* Decompose::join: extend with the elements of the deltas not yet contained
CrateGSetJoin(self, deltas) ==
    LET unknown_elements == SelectSeq(Flatten(deltas), LAMBDA v : v \notin self)
    IN self \cup SeqRange(unknown_elements)

\* Decompose::difference: a Delta of the elements of self absent from the other
CrateGSetDifference(self, other) == SetToSeq(self \ other)

(***************************************************************************)
(* GCounter<I> of crates/crdt (src/crates/crdt/src/gcounter.rs): a map     *)
(* from replica ids to u64 counts.  A Delta is the Vec of the (id, count)  *)
(* entries it refers to.                                                   *)
(***************************************************************************)
Ids == {1, 2}

GCounterNew == <<>>

\* the entries of the map, as the set of (id, count) pairs
Entries(self) == {<<id, self[id]>> : id \in DOMAIN self}

\* GCounter::as_delta
GCounterAsDelta(self) == SetToSeq(Entries(self))

\* GCounter::increment: the entry of id goes up by one, starting at 1
GCounterIncrement(self, id) ==
    IF id \in DOMAIN self THEN [self EXCEPT ![id] = @ + 1] ELSE self @@ (id :> 1)

\* Decompose::split: one Delta of a single entry per entry
GCounterSplit(self) ==
    [i \in 1..Cardinality(DOMAIN self) |-> <<SetToSeq(Entries(self))[i]>>]

\* A plausible slip: counts are added instead of taking the larger one
JoinEntryAdding(self, entry) ==
    IF entry[1] \in DOMAIN self
    THEN [self EXCEPT ![entry[1]] = @ + entry[2]]
    ELSE self @@ (entry[1] :> entry[2])

\* the body of the for_each of join: max of the two counts, or a new entry
JoinEntry(self, entry) ==
    IF entry[1] \in DOMAIN self
    THEN [self EXCEPT ![entry[1]] = Max(@, entry[2])]
    ELSE self @@ (entry[1] :> entry[2])

RECURSIVE JoinEntries(_, _)
JoinEntries(self, entries) ==
    IF entries = <<>> THEN self
    ELSE JoinEntries(JoinEntry(self, Head(entries)), Tail(entries))

\* Decompose::join
GCounterJoin(self, deltas) == JoinEntries(self, Flatten(deltas))

\* A plausible slip: an entry equal to the other's is kept
GCounterDifferenceNotStrict(self, other) ==
    SetToSeq({e \in Entries(self) :
                 IF e[1] \in DOMAIN other THEN e[2] >= other[e[1]] ELSE TRUE})

\* Decompose::difference: the entries absent from the other or strictly ahead of it
GCounterDifference(self, other) ==
    SetToSeq({e \in Entries(self) :
                 IF e[1] \in DOMAIN other THEN e[2] > other[e[1]] ELSE TRUE})

\* Result<T>: Ok(value) or Err
Ok(value) == [ok |-> TRUE, value |-> value]
Err == [ok |-> FALSE]

\* A plausible slip: extract yields the first piece of any non-empty delta
CrateGSetExtractFirst(delta) ==
    IF Len(delta) >= 1 THEN Ok(delta[1]) ELSE Err

\* Extract::extract for GSet: ensure!(delta.elems.len() == 1), then the first
CrateGSetExtract(delta) ==
    IF Len(delta) = 1 THEN Ok(delta[1]) ELSE Err

\* Extract::extract for GCounter: the same, on entries (id, count)
GCounterExtract(delta) ==
    IF Len(delta) = 1 THEN Ok(delta[1]) ELSE Err

(***************************************************************************)
(* AWSet<T> (src/src/crdt.rs): inserted is a map from uids to values,      *)
(* removed the set of tombstoned uids.  A decomposition is an AWSet.       *)
(***************************************************************************)
Values == {"x", "y"}

AWSetNew == [inserted |-> <<>>, removed |-> {}]

RECURSIVE SetMax(_)
\* Iterator::max, or 0 for an empty iterator (unwrap_or(&0))
SetMax(S) ==
    IF S = {} THEN 0
    ELSE LET x == CHOOSE y \in S : TRUE IN Max(x, SetMax(S \ {x}))

\* the uid AWSet::insert mints: one past the largest uid inserted or removed
NextUid(self) == Max(SetMax(DOMAIN self.inserted), SetMax(self.removed)) + 1

\* HashMap::insert / HashMap::extend of one entry: an existing key is overwritten
MapInsert(map, key, value) ==
    IF key \in DOMAIN map THEN [map EXCEPT ![key] = value] ELSE map @@ (key :> value)

\* AWSet::insert
AWSetInsert(self, value) ==
    [self EXCEPT !.inserted = MapInsert(@, NextUid(self), value)]

\* the uids AWSet::remove may find: they map to the value and are not tombstoned
LiveUids(self, value) ==
    {id \in DOMAIN self.inserted : self.inserted[id] = value /\ id \notin self.removed}

\* AWSet::remove, having found id: that uid is tombstoned
AWSetRemove(self, id) == [self EXCEPT !.removed = @ \cup {id}]

\* AWSet::contains
AWSetContains(self, value) == LiveUids(self, value) # {}

\* Decomposable::split: one AWSet per inserted entry, then one per tombstone
AWSetSplit(self) ==
    [i \in 1..Cardinality(DOMAIN self.inserted) |->
        LET id == SetToSeq(DOMAIN self.inserted)[i]
        IN [inserted |-> (id :> self.inserted[id]), removed |-> {}]]
    \o [i \in 1..Cardinality(self.removed) |->
        [inserted |-> <<>>, removed |-> {SetToSeq(self.removed)[i]}]]

RECURSIVE MapExtend(_, _, _)
\* HashMap::extend: every entry of other is inserted, in turn
MapExtend(map, other, keys) ==
    IF keys = <<>> THEN map
    ELSE MapExtend(MapInsert(map, Head(keys), other[Head(keys)]), other, Tail(keys))

RECURSIVE AWSetJoin(_, _)
\* Decomposable::join: per delta, inserted.extend and removed.extend
AWSetJoin(self, deltas) ==
    IF deltas = <<>> THEN self
    ELSE LET delta == Head(deltas)
         IN AWSetJoin([inserted |-> MapExtend(self.inserted, delta.inserted,
                                              SetToSeq(DOMAIN delta.inserted)),
                       removed |-> self.removed \cup delta.removed],
                      Tail(deltas))

\* AWSet::elements: the values of the inserted entries that are not tombstoned
AWSetElements(self) ==
    {self.inserted[id] : id \in {u \in DOMAIN self.inserted : u \notin self.removed}}

\* one half of Measurable::false_matches: the live entries of self whose value
\* other does not contain, counted per entry
UnmatchedEntries(self, other) ==
    {id \in DOMAIN self.inserted :
        id \notin self.removed /\ ~AWSetContains(other, self.inserted[id])}

\* Measurable::false_matches for AWSet: the two halves chained and counted
AWSetFalseMatches(self, other) ==
    Cardinality(UnmatchedEntries(self, other))
        + Cardinality(UnmatchedEntries(other, self))

\* Measurable::false_matches for GSet: symmetric_difference(..).count()
GSetFalseMatches(self, other) ==
    Cardinality((self \ other) \cup (other \ self))

(***************************************************************************)
(* DotContext<I> (src/crates/crdt/src/causal.rs): clock is a map from ids  *)
(* to u64, cloud an ordered set of dots <<id, seq>>.  compact subtracts 1  *)
(* from a u64: with seq = 0 that overflows, a panic when the build checks  *)
(* overflows and a wrap to u64::MAX otherwise.                             *)
(***************************************************************************)
DotContextNew == [clock |-> <<>>, cloud |-> {}]

\* DotContext::contains
DotContains(self, dot) ==
    \/ dot[1] \in DOMAIN self.clock /\ self.clock[dot[1]] >= dot[2]
    \/ dot \in self.cloud

\* the derived Ord of Dot: by id, then by sequence number
DotLess(d, e) == d[1] < e[1] \/ (d[1] = e[1] /\ d[2] < e[2])

RECURSIVE SortedDotsDescending(_)
\* A plausible slip: the cloud is traversed largest first
SortedDotsDescending(S) ==
    IF S = {} THEN <<>>
    ELSE LET hi == CHOOSE d \in S : \A e \in S \ {d} : DotLess(e, d)
         IN <<hi>> \o SortedDotsDescending(S \ {hi})

RECURSIVE SortedDots(_)
\* the iteration order of the BTreeSet
SortedDots(S) ==
    IF S = {} THEN <<>>
    ELSE LET lo == CHOOSE d \in S : \A e \in S \ {d} : DotLess(d, e)
         IN <<lo>> \o SortedDots(S \ {lo})

\* the closure of retain on one dot; st carries the clock, the cloud kept so
\* far and whether the subtraction has panicked
CompactDot(st, dot, checks) ==
    LET id == dot[1]
        seq == dot[2]
    IN IF st.panic \/ id \notin DOMAIN st.clock THEN st
       ELSE IF seq = 0 /\ checks THEN [st EXCEPT !.panic = TRUE]
       \* seq - 1 wrapped to u64::MAX, which no clock of the model reaches
       ELSE IF seq # 0 /\ st.clock[id] = seq - 1
            THEN [st EXCEPT !.clock[id] = @ + 1, !.cloud = @ \ {dot}]
       ELSE IF st.clock[id] >= seq THEN [st EXCEPT !.cloud = @ \ {dot}]
       ELSE st

RECURSIVE CompactDots(_, _, _)
CompactDots(st, dots, checks) ==
    IF dots = <<>> THEN st
    ELSE CompactDots(CompactDot(st, Head(dots), checks), Tail(dots), checks)

\* A plausible slip: compaction empties the cloud
DotCompactDropAll(self, checks) ==
    [clock |-> self.clock, cloud |-> {}, panic |-> FALSE]

\* DotContext::compact
DotCompact(self, checks) ==
    CompactDots([clock |-> self.clock, cloud |-> self.cloud, panic |-> FALSE],
                SortedDots(self.cloud), checks)

\* A plausible slip: a present entry is not incremented
DotNextStuck(self, id) ==
    IF id \in DOMAIN self.clock
    THEN self
    ELSE [self EXCEPT !.clock = @ @@ (id :> 1)]

\* DotContext::next: the context after the call; the call returns clock[id]
DotNext(self, id) ==
    IF id \in DOMAIN self.clock
    THEN [self EXCEPT !.clock[id] = @ + 1]
    ELSE [self EXCEPT !.clock = @ @@ (id :> 1)]

RECURSIVE MergeClockOverwriting(_, _, _)
\* A plausible slip: the entry of other replaces the entry of self
MergeClockOverwriting(clock, other, ids) ==
    IF ids = <<>> THEN clock
    ELSE LET id == Head(ids)
         IN MergeClockOverwriting(IF id \in DOMAIN clock
                                  THEN [clock EXCEPT ![id] = other[id]]
                                  ELSE clock @@ (id :> other[id]),
                                  other, Tail(ids))

RECURSIVE MergeClock(_, _, _)
\* the for_each of join over other.clock: the larger of the two, or a new entry
MergeClock(clock, other, ids) ==
    IF ids = <<>> THEN clock
    ELSE LET id == Head(ids)
         IN MergeClock(IF id \in DOMAIN clock
                       THEN [clock EXCEPT ![id] = Max(@, other[id])]
                       ELSE clock @@ (id :> other[id]),
                       other, Tail(ids))

\* DotContext::join: the larger clock per id, the union of the clouds, compact
DotJoin(self, other, checks) ==
    DotCompact([clock |-> MergeClock(self.clock, other.clock, SetToSeq(DOMAIN other.clock)),
                cloud |-> self.cloud \cup (other.cloud \ self.cloud)],
               checks)

\* PartialEq for DotContext: clock and cloud compared structurally
DotEq(a, b) == a.clock = b.clock /\ a.cloud = b.cloud

(***************************************************************************)
(* The lattice values exercised: GSet, GCounter and DotContext values are  *)
(* drawn from bounded sets, AWSet replicas grow from AWSet::new by insert  *)
(* and remove.  Every operation applied leaves what it returned in out.    *)
(***************************************************************************)
MaxCount == 2
MaxUid == 2
MaxSeq == 2

Kinds == {"gset", "gcounter", "awset", "dot"}

GCounters == UNION {[D -> 1..MaxCount] : D \in SUBSET Ids}

DotContexts ==
    {[clock |-> c, cloud |-> d] :
        c \in UNION {[D -> 0..MaxSeq] : D \in SUBSET Ids},
        d \in SUBSET (Ids \X (0..MaxSeq))}

InitLattice ==
    /\ kind \in Kinds
    /\ gsA \in (IF kind = "gset" THEN SUBSET Items ELSE {{}})
    /\ gsB \in (IF kind = "gset" THEN SUBSET Items ELSE {{}})
    /\ gsC \in (IF kind = "gset" THEN SUBSET Items ELSE {{}})
    /\ gcA \in (IF kind = "gcounter" THEN GCounters ELSE {<<>>})
    /\ gcB \in (IF kind = "gcounter" THEN GCounters ELSE {<<>>})
    /\ gcC \in (IF kind = "gcounter" THEN GCounters ELSE {<<>>})
    /\ awA = (IF kind = "awset" THEN AWSetNew ELSE <<>>)
    /\ awB = (IF kind = "awset" THEN AWSetNew ELSE <<>>)
    /\ dcA \in (IF kind = "dot" THEN DotContexts ELSE {<<>>})
    /\ overflow_checks \in (IF kind = "dot" THEN BOOLEAN ELSE {FALSE})
    /\ out = NoOut

InitLatticeSpec == NoSession /\ InitLattice /\ NoConstruct /\ NoCalls /\ NoRuns

\* the operations are applied to the values as drawn or built: one per run
Fresh == out = NoOut

\* join(a, b) of two GSets: b is handed over as one Delta
GSetJoined(a, b) == CrateGSetJoin(a, <<CrateGSetAsDelta(b)>>)

\* GSet: join applied to the pairs and triples of the three values
GSetJoinOp ==
    /\ kind = "gset" /\ Fresh
    /\ out' = [op |-> "join",
               aa |-> GSetJoined(gsA, gsA),
               ab |-> GSetJoined(gsA, gsB),
               ba |-> GSetJoined(gsB, gsA),
               ab_c |-> GSetJoined(GSetJoined(gsA, gsB), gsC),
               a_bc |-> GSetJoined(gsA, GSetJoined(gsB, gsC)),
               a_e |-> GSetJoined(gsA, CrateGSetNew),
               e_a |-> GSetJoined(CrateGSetNew, gsA)]
    /\ UNCHANGED <<protoVars, constructVars, callerVars, kind, gsA, gsB, gsC, gcA, gcB, gcC, awA, awB, dcA,
                   overflow_checks>>

\* GSet: split, and the join of all the pieces into a new GSet
GSetSplitOp ==
    /\ kind = "gset" /\ Fresh
    /\ out' = [op |-> "split",
               pieces |-> CrateGSetSplit(gsA),
               rebuilt |-> CrateGSetJoin(CrateGSetNew, CrateGSetSplit(gsA))]
    /\ UNCHANGED <<protoVars, constructVars, callerVars, kind, gsA, gsB, gsC, gcA, gcB, gcC, awA, awB, dcA,
                   overflow_checks>>

\* GSet: difference both ways on the pre-states, and the joins of the deltas
GSetDifferenceOp ==
    /\ kind = "gset" /\ Fresh
    /\ out' = [op |-> "difference",
               ab |-> CrateGSetDifference(gsA, gsB),
               aa |-> CrateGSetDifference(gsA, gsA),
               b_after |-> CrateGSetJoin(gsB, <<CrateGSetDifference(gsA, gsB)>>),
               a_after |-> CrateGSetJoin(gsA, <<CrateGSetDifference(gsB, gsA)>>),
               joined |-> GSetJoined(gsA, gsB)]
    /\ UNCHANGED <<protoVars, constructVars, callerVars, kind, gsA, gsB, gsC, gcA, gcB, gcC, awA, awB, dcA,
                   overflow_checks>>

\* GCounter::increment on the first counter
GCounterIncrementOp ==
    /\ kind = "gcounter" /\ Fresh
    /\ \E id \in Ids :
        /\ id \in DOMAIN gcA => gcA[id] < MaxCount
        /\ gcA' = GCounterIncrement(gcA, id)
    /\ UNCHANGED <<protoVars, constructVars, callerVars, kind, gsA, gsB, gsC, gcB, gcC, awA, awB, dcA,
                   overflow_checks, out>>

\* join(a, b) of two GCounters: b is handed over as one Delta
GCounterJoined(a, b) == GCounterJoin(a, <<GCounterAsDelta(b)>>)

\* GCounter: join applied to the pairs and triples of the three values
GCounterJoinOp ==
    /\ kind = "gcounter" /\ Fresh
    /\ out' = [op |-> "join",
               aa |-> GCounterJoined(gcA, gcA),
               ab |-> GCounterJoined(gcA, gcB),
               ba |-> GCounterJoined(gcB, gcA),
               ab_c |-> GCounterJoined(GCounterJoined(gcA, gcB), gcC),
               a_bc |-> GCounterJoined(gcA, GCounterJoined(gcB, gcC)),
               a_e |-> GCounterJoined(gcA, GCounterNew),
               e_a |-> GCounterJoined(GCounterNew, gcA)]
    /\ UNCHANGED <<protoVars, constructVars, callerVars, kind, gsA, gsB, gsC, gcA, gcB, gcC, awA, awB, dcA,
                   overflow_checks>>

\* GCounter: split, and the join of all the pieces into a new GCounter
GCounterSplitOp ==
    /\ kind = "gcounter" /\ Fresh
    /\ out' = [op |-> "split",
               pieces |-> GCounterSplit(gcA),
               rebuilt |-> GCounterJoin(GCounterNew, GCounterSplit(gcA))]
    /\ UNCHANGED <<protoVars, constructVars, callerVars, kind, gsA, gsB, gsC, gcA, gcB, gcC, awA, awB, dcA,
                   overflow_checks>>

\* GCounter: difference both ways on the pre-states, and the joins of the deltas
GCounterDifferenceOp ==
    /\ kind = "gcounter" /\ Fresh
    /\ out' = [op |-> "difference",
               ab |-> GCounterDifference(gcA, gcB),
               aa |-> GCounterDifference(gcA, gcA),
               b_after |-> GCounterJoin(gcB, <<GCounterDifference(gcA, gcB)>>),
               a_after |-> GCounterJoin(gcA, <<GCounterDifference(gcB, gcA)>>),
               joined |-> GCounterJoined(gcA, gcB)]
    /\ UNCHANGED <<protoVars, constructVars, callerVars, kind, gsA, gsB, gsC, gcA, gcB, gcC, awA, awB, dcA,
                   overflow_checks>>

\* AWSet::insert on one of the two replicas
AWSetInsertOp ==
    /\ kind = "awset" /\ Fresh
    /\ \E value \in Values :
        \/ /\ NextUid(awA) <= MaxUid
           /\ awA' = AWSetInsert(awA, value) /\ awB' = awB
        \/ /\ NextUid(awB) <= MaxUid
           /\ awB' = AWSetInsert(awB, value) /\ awA' = awA
    /\ UNCHANGED <<protoVars, constructVars, callerVars, kind, gsA, gsB, gsC, gcA, gcB, gcC, dcA,
                   overflow_checks, out>>

\* AWSet::remove on one of the two replicas: find yields any one live uid of
\* the value (the iteration order of the HashMap is unspecified)
AWSetRemoveOp ==
    /\ kind = "awset" /\ Fresh
    /\ \E value \in Values :
        \/ /\ \E id \in LiveUids(awA, value) : awA' = AWSetRemove(awA, id)
           /\ awB' = awB
        \/ /\ \E id \in LiveUids(awB, value) : awB' = AWSetRemove(awB, id)
           /\ awA' = awA
    /\ UNCHANGED <<protoVars, constructVars, callerVars, kind, gsA, gsB, gsC, gcA, gcB, gcC, dcA,
                   overflow_checks, out>>

\* AWSet: each replica joins the other, both from the states before the joins
AWSetJoinOp ==
    /\ kind = "awset" /\ Fresh
    /\ out' = [op |-> "join",
               ab |-> AWSetJoin(awA, <<awB>>),
               ba |-> AWSetJoin(awB, <<awA>>)]
    /\ UNCHANGED <<protoVars, constructVars, callerVars, kind, gsA, gsB, gsC, gcA, gcB, gcC, awA, awB, dcA,
                   overflow_checks>>

\* AWSet: split, and the join of all the pieces into a new AWSet
AWSetSplitOp ==
    /\ kind = "awset" /\ Fresh
    /\ out' = [op |-> "split",
               pieces |-> AWSetSplit(awA),
               rebuilt |-> AWSetJoin(AWSetNew, AWSetSplit(awA))]
    /\ UNCHANGED <<protoVars, constructVars, callerVars, kind, gsA, gsB, gsC, gcA, gcB, gcC, awA, awB, dcA,
                   overflow_checks>>

\* AWSet::len: the inserted uids that are not tombstoned, counted per uid
AWSetLen(self) ==
    Cardinality({id \in DOMAIN self.inserted : id \notin self.removed})

\* PartialEq::eq for AWSet: equal len, and other contains every live value
\* of self
AWSetEq(self, other) ==
    IF AWSetLen(self) # AWSetLen(other) THEN FALSE
    ELSE \A id \in DOMAIN self.inserted :
            id \notin self.removed => AWSetContains(other, self.inserted[id])

\* AWSet: the two replicas compared with ==, in both directions
AWSetEqOp ==
    /\ kind = "awset" /\ Fresh
    /\ out' = [op |-> "eq", ab |-> AWSetEq(awA, awB), ba |-> AWSetEq(awB, awA)]
    /\ UNCHANGED <<protoVars, constructVars, callerVars, kind, gsA, gsB, gsC, gcA, gcB, gcC, awA, awB, dcA,
                   overflow_checks>>

\* GSet: false_matches of the first two values
GSetFalseMatchesOp ==
    /\ kind = "gset" /\ Fresh
    /\ out' = [op |-> "false_matches", n |-> GSetFalseMatches(gsA, gsB)]
    /\ UNCHANGED <<protoVars, constructVars, callerVars, kind, gsA, gsB, gsC, gcA, gcB, gcC, awA, awB, dcA,
                   overflow_checks>>

\* AWSet: false_matches of the two replicas
AWSetFalseMatchesOp ==
    /\ kind = "awset" /\ Fresh
    /\ out' = [op |-> "false_matches", n |-> AWSetFalseMatches(awA, awB)]
    /\ UNCHANGED <<protoVars, constructVars, callerVars, kind, gsA, gsB, gsC, gcA, gcB, gcC, awA, awB, dcA,
                   overflow_checks>>

\* GSet: extract on the whole value as a delta, on each piece of its split
\* and on the delta of an empty set
GSetExtractOp ==
    /\ kind = "gset" /\ Fresh
    /\ out' = [op |-> "extract",
               delta |-> CrateGSetAsDelta(gsA),
               whole |-> CrateGSetExtract(CrateGSetAsDelta(gsA)),
               pieces |-> CrateGSetSplit(gsA),
               each |-> [i \in DOMAIN CrateGSetSplit(gsA) |->
                            CrateGSetExtract(CrateGSetSplit(gsA)[i])],
               empty |-> CrateGSetExtract(CrateGSetAsDelta(CrateGSetNew))]
    /\ UNCHANGED <<protoVars, constructVars, callerVars, kind, gsA, gsB, gsC, gcA, gcB, gcC, awA, awB, dcA,
                   overflow_checks>>

\* GCounter: extract on the whole value as a delta, on each piece of its
\* split and on the delta of an empty counter
GCounterExtractOp ==
    /\ kind = "gcounter" /\ Fresh
    /\ out' = [op |-> "extract",
               delta |-> GCounterAsDelta(gcA),
               whole |-> GCounterExtract(GCounterAsDelta(gcA)),
               pieces |-> GCounterSplit(gcA),
               each |-> [i \in DOMAIN GCounterSplit(gcA) |->
                            GCounterExtract(GCounterSplit(gcA)[i])],
               empty |-> GCounterExtract(GCounterAsDelta(GCounterNew))]
    /\ UNCHANGED <<protoVars, constructVars, callerVars, kind, gsA, gsB, gsC, gcA, gcB, gcC, awA, awB, dcA,
                   overflow_checks>>

\* DotContext: a.join(&a.clone())
DotJoinSelfOp ==
    /\ kind = "dot" /\ Fresh
    /\ out' = [op |-> "join_self", after |-> DotJoin(dcA, dcA, overflow_checks)]
    /\ UNCHANGED <<protoVars, constructVars, callerVars, kind, gsA, gsB, gsC, gcA, gcB, gcC, awA, awB, dcA,
                   overflow_checks>>

\* DotContext::compact
DotCompactOp ==
    /\ kind = "dot" /\ Fresh
    /\ out' = [op |-> "compact", after |-> DotCompact(dcA, overflow_checks)]
    /\ UNCHANGED <<protoVars, constructVars, callerVars, kind, gsA, gsB, gsC, gcA, gcB, gcC, awA, awB, dcA,
                   overflow_checks>>

(***************************************************************************)
(* The Elements iterator of GSet (src/src/crdt.rs): the Vec of the         *)
(* elements, in the iteration order of the HashSet, and an index into it.  *)
(* Vec indices start at 0, sequence indices at 1.                          *)
(***************************************************************************)
\* base.iter(): the orders in which a HashSet can yield its elements
IterationOrders(base) ==
    {s \in [1..Cardinality(base) -> base] :
        \A i, j \in 1..Cardinality(base) : s[i] = s[j] => i = j}

\* GSet::elements: the set collected in one of its iteration orders
GSetElements(self, order) == [elems |-> order, idx |-> 0]

\* Elements::next: None at the end; otherwise the index is incremented and
\* then used, and an index out of the Vec's bounds panics
ElementsNext(it) ==
    IF it.idx >= Len(it.elems)
    THEN [it |-> it, item |-> None, panic |-> FALSE]
    ELSE LET idx == it.idx + 1
         IN IF idx >= Len(it.elems)
            THEN [it |-> [it EXCEPT !.idx = idx], item |-> None, panic |-> TRUE]
            ELSE [it |-> [it EXCEPT !.idx = idx], item |-> Some(it.elems[idx + 1]),
                  panic |-> FALSE]

RECURSIVE DrainElements(_, _)
\* for x in set.elements(): next is called until it returns None or panics
DrainElements(it, yielded) ==
    LET r == ElementsNext(it)
    IN IF r.panic THEN [yielded |-> yielded, panic |-> TRUE]
       ELSE IF r.item = None THEN [yielded |-> yielded, panic |-> FALSE]
       ELSE DrainElements(r.it, Append(yielded, r.item[1]))

\* the iterator of elements() run to its end
GSetElementsOp ==
    /\ kind = "gset" /\ Fresh
    /\ \E order \in IterationOrders(gsA) :
          out' = [op |-> "elements", elems |-> order,
                  drained |-> DrainElements(GSetElements(gsA, order), <<>>)]
    /\ UNCHANGED <<protoVars, constructVars, callerVars, kind, gsA, gsB, gsC, gcA, gcB, gcC, awA, awB, dcA,
                   overflow_checks>>

\* DotContext::next called twice for the same id: what each call returned
\* and the context it left
DotNextOp ==
    /\ kind = "dot" /\ Fresh
    /\ \E id \in Ids :
          LET once == DotNext(dcA, id)
              twice == DotNext(once, id)
          IN out' = [op |-> "next", id |-> id,
                     first |-> once.clock[id], after_first |-> once,
                     second |-> twice.clock[id], after_second |-> twice]
    /\ UNCHANGED <<protoVars, constructVars, callerVars, kind, gsA, gsB, gsC, gcA, gcB, gcC, awA, awB, dcA,
                   overflow_checks>>

\* the contexts joined into dcA: any clock, at most one detached dot
OtherDotContexts == {c \in DotContexts : Cardinality(c.cloud) <= 1}

\* DotContext::join with another context
DotJoinOp ==
    /\ kind = "dot" /\ Fresh
    /\ \E other \in OtherDotContexts :
          out' = [op |-> "dot_join", other |-> other,
                  after |-> DotJoin(dcA, other, overflow_checks)]
    /\ UNCHANGED <<protoVars, constructVars, callerVars, kind, gsA, gsB, gsC, gcA, gcB, gcC, awA, awB, dcA,
                   overflow_checks>>

(***************************************************************************)
(* The dispatch of BuildBuckets::buckets with its order made explicit.     *)
(* replica.split() yields the decompositions in the iteration order of a   *)
(* HashSet, which is arbitrary; a bucket is a BTreeMap, written here as    *)
(* the sequence of its <<key, value>> entries in iteration order.  The     *)
(* sessions above use BuildBuckets, which gives the same buckets as        *)
(* functions.                                                              *)
(***************************************************************************)
MaxBuckets == 3

\* the orders in which the decompositions of a replica can be yielded
SplitOrders(replica) ==
    {s \in [1..Cardinality(replica) -> replica] :
        \A i, j \in 1..Cardinality(replica) : s[i] = s[j] => i = j}

\* an entry pushed at the end, whatever its key: a Vec in place of the map
BucketPush(bucket, key, value) == Append(bucket, <<key, value>>)

\* BTreeMap::insert: the value of a present key is replaced, a new key
\* takes its place in ascending key order
BucketInsert(bucket, key, value) ==
    IF \E i \in DOMAIN bucket : bucket[i][1] = key
    THEN [i \in DOMAIN bucket |->
             IF bucket[i][1] = key THEN <<key, value>> ELSE bucket[i]]
    ELSE SelectSeq(bucket, LAMBDA e : e[1] < key)
         \o <<<<key, value>>>>
         \o SelectSeq(bucket, LAMBDA e : e[1] > key)

RECURSIVE BucketsInOrder(_, _, _)
\* BuildBuckets::buckets over the decompositions in the order given; the
\* last one yielded is inserted last
BucketsInOrder(order, h, n) ==
    IF order = <<>> THEN [i \in 1..n |-> <<>>]
    ELSE LET before == BucketsInOrder(SubSeq(order, 1, Len(order) - 1), h, n)
             item == order[Len(order)]
             idx == (h[item] % n) + 1
         IN [before EXCEPT ![idx] = BucketInsert(before[idx], h[item], {item})]

\* BTreeMap::keys
BucketKeys(bucket) == [i \in DOMAIN bucket |-> bucket[i][1]]

\* BuildBuckets::hashes over such buckets: the fingerprint strings
HashesInOrder(buckets) ==
    [i \in DOMAIN buckets |-> ConcatDecimals(BucketKeys(buckets[i]))]

\* two peers holding the same pieces bucket them under the session's hasher,
\* each in its own order
BucketsDispatchOp ==
    /\ kind = "gset" /\ Fresh
    /\ \E h \in [Items -> HashValues], n \in 1..MaxBuckets,
          p \in SplitOrders(gsA), q \in SplitOrders(gsA) :
          out' = [op |-> "dispatch", hasher |-> h, num_buckets |-> n,
                  first |-> p, second |-> q,
                  first_hashes |-> HashesInOrder(BucketsInOrder(p, h, n)),
                  second_hashes |-> HashesInOrder(BucketsInOrder(q, h, n))]
    /\ UNCHANGED <<protoVars, constructVars, callerVars, kind, gsA, gsB, gsC, gcA, gcB, gcC, awA, awB, dcA,
                   overflow_checks>>

NextLattice ==
    \/ GSetJoinOp \/ GSetSplitOp \/ GSetDifferenceOp
    \/ GCounterIncrementOp \/ GCounterJoinOp \/ GCounterSplitOp \/ GCounterDifferenceOp
    \/ AWSetInsertOp \/ AWSetRemoveOp \/ AWSetJoinOp \/ AWSetSplitOp
    \/ GSetFalseMatchesOp \/ AWSetFalseMatchesOp
    \/ GSetExtractOp \/ GCounterExtractOp
    \/ DotJoinSelfOp \/ DotCompactOp \/ DotJoinOp \/ DotNextOp
    \/ GSetElementsOp
    \/ AWSetEqOp
    \/ BucketsDispatchOp

SpecLattice == InitLatticeSpec /\ [][NextLattice]_vars

(***************************************************************************)
(* Construction.  The false positive rates and load factors are f64s,      *)
(* here ratios <<num, den>> with den > 0.  Two Bloom filters exist:        *)
(* BloomFilter::new of crates/bloom/src/lib.rs, which returns a Result,    *)
(* and BloomFilter::with_capacity_and_fpr of src/src/bloom.rs, which       *)
(* asserts.  The protocol types take their rate or load factor through a   *)
(* builder method (src/src/sync/*.rs) or a with_* constructor              *)
(* (src/src/sync.rs).  A failed assert! is a panic.                        *)
(***************************************************************************)
Zero == <<0, 1>>
One == <<1, 1>>

RatioLess(a, b) == a[1] * b[2] < b[1] * a[2]
RatioLeq(a, b) == a[1] * b[2] <= b[1] * a[2]

\* (0.0..1.0).contains(&x)
RangeContains(x) == RatioLeq(Zero, x) /\ RatioLess(x, One)

\* (0.0..=1.0).contains(&x)
RangeInclusiveContains(x) == RatioLeq(Zero, x) /\ RatioLeq(x, One)

\* the rates handed to the constructors
Fprs == {<<-1, 2>>, <<0, 1>>, <<1, 100>>, <<1, 10>>, <<1, 1>>, <<3, 2>>}

\* the load factors handed to the constructors
LoadFactorArgs == LoadFactors \cup {<<-1, 1>>, <<0, 1>>}

\* -ln(fpr) / (LN_2 * LN_2) in millionths, rounded up, for 0 < fpr <= 1
MicroBitsPerItem(fpr) ==
    CASE fpr = <<1, 100>> -> BitsPerItemMicro
      [] fpr = <<1, 10>> -> 4792530
      [] fpr = <<1, 1>> -> 0

\* k = (-ln(fpr) / LN_2).ceil() as u64, for 0 < fpr <= 1
HashCount(fpr) ==
    CASE fpr = <<1, 100>> -> NumHashes
      [] fpr = <<1, 10>> -> 4
      [] fpr = <<1, 1>> -> 0

\* m = (capacity * -ln(fpr) / (LN_2 * LN_2)).ceil() as usize, for 0 < fpr <= 1
BitCount(capacity, fpr) == (capacity * MicroBitsPerItem(fpr) + 999999) \div 1000000

\* a failed assert!
Panicked == [ok |-> FALSE, panic |-> TRUE]

\* BloomFilter::new of crates/bloom: two ensure!s, then max(m, 1) bits
BloomFilterTryNew(capacity, epsilon, hs) ==
    IF ~RatioLess(Zero, epsilon) THEN Err
    ELSE IF ~RangeContains(epsilon) THEN Err
    ELSE Ok([m |-> Max(BitCount(capacity, epsilon), 1), k |-> HashCount(epsilon),
             bits |-> {}, hashers |-> hs])

\* BloomFilter::with_capacity_and_fpr of src/src/bloom.rs: one assert!, then
\* m bits.  With fpr = 0.0 the logarithm is -inf: k saturates at u64::MAX
\* (here the largest integer of the model, which no loop reaches since m = 0
\* fails at i = 0), m is NaN as usize = 0 for capacity 0 and saturates at
\* usize::MAX otherwise, more bits than bitvec! can hold, a panic.
WithCapacityAndFpr(capacity, fpr, hs) ==
    IF ~RangeInclusiveContains(fpr) THEN Panicked
    ELSE IF fpr = Zero
         THEN IF capacity = 0
              THEN Ok([m |-> 0, k |-> 2147483647, bits |-> {}, hashers |-> hs])
              ELSE Panicked
    ELSE Ok([m |-> BitCount(capacity, fpr), k |-> HashCount(fpr),
             bits |-> {}, hashers |-> hs])

\* BloomBuilder::fpr (src/src/sync/bloom.rs)
BloomBuilderFpr(fpr) ==
    IF RangeContains(fpr) /\ RatioLess(Zero, fpr) THEN Ok(fpr) ELSE Panicked

\* BloomBucketsBuilder::fpr (src/src/sync/bloombuckets.rs)
BloomBucketsBuilderFpr(fpr) ==
    IF RangeContains(fpr) /\ RatioLess(Zero, fpr) THEN Ok(fpr) ELSE Panicked

\* Bloom::with_fpr (src/src/sync.rs)
BloomWithFpr(fpr) ==
    IF RangeContains(fpr) /\ fpr # Zero THEN Ok(fpr) ELSE Panicked

\* BucketsBuilder::load_factor (src/src/sync/buckets.rs)
BucketsBuilderLoadFactor(lf) ==
    IF RatioLess(Zero, lf) THEN Ok(lf) ELSE Panicked

\* BloomBucketsBuilder::load_factor (src/src/sync/bloombuckets.rs)
BloomBucketsBuilderLoadFactor(lf) ==
    IF RatioLess(Zero, lf) THEN Ok(lf) ELSE Panicked

\* Buckets::with_load_factor (src/src/sync.rs): assert!(load_factor >= 0.0)
BucketsWithLoadFactor(len, lf) ==
    IF RatioLeq(Zero, lf) THEN Ok([b |-> NumBuckets(len, lf)]) ELSE Panicked

\* the remainder by self.arr.len() = 0, at the first of the k probes
FilterFaults(f) == f.m = 0 /\ f.k > 0

MaxCapacity == 2

FilterCtors == {"BloomFilter::new", "BloomFilter::with_capacity_and_fpr"}
FprCtors == {"BloomBuilder::fpr", "BloomBucketsBuilder::fpr", "Bloom::with_fpr"}
LoadFactorCtors == {"BucketsBuilder::load_factor",
                    "BloomBucketsBuilder::load_factor",
                    "Buckets::with_load_factor"}

\* the constructor calls exercised: capacity is the filter's capacity, or the
\* length of the local replica for Buckets::with_load_factor
Calls ==
    [ctor : FilterCtors, capacity : 0..MaxCapacity, ratio : Fprs]
    \cup [ctor : FprCtors, capacity : {0}, ratio : Fprs]
    \cup [ctor : LoadFactorCtors \ {"Buckets::with_load_factor"},
          capacity : {0}, ratio : LoadFactorArgs]
    \cup [ctor : {"Buckets::with_load_factor"},
          capacity : 0..MaxCapacity, ratio : LoadFactorArgs]

InitConstruct ==
    /\ cfg \in Calls
    /\ built = Pending
    /\ filter = NoFilter /\ inserted = {} /\ faulted = FALSE
    /\ query = NoQuery

InitConstructSpec == NoSession /\ NoLattice /\ InitConstruct /\ NoCalls /\ NoRuns

Returned(result) == [state |-> "returned", result |-> result]

\* the constructor called returns result; a filter it returned is kept
Return(result) ==
    /\ built' = Returned(result)
    /\ filter' = (IF cfg.ctor \in FilterCtors /\ result.ok
                  THEN result.value ELSE filter)
    /\ UNCHANGED <<protoVars, latticeVars, callerVars, cfg, inserted, faulted, query>>

BloomFilterNewOp ==
    /\ cfg.ctor = "BloomFilter::new" /\ built = Pending
    /\ \E hs \in FilterHashers(Items) :
        Return(BloomFilterTryNew(cfg.capacity, cfg.ratio, hs))

WithCapacityAndFprOp ==
    /\ cfg.ctor = "BloomFilter::with_capacity_and_fpr" /\ built = Pending
    /\ \E hs \in FilterHashers(Items) :
        Return(WithCapacityAndFpr(cfg.capacity, cfg.ratio, hs))

BloomBuilderFprOp ==
    /\ cfg.ctor = "BloomBuilder::fpr" /\ built = Pending
    /\ Return(BloomBuilderFpr(cfg.ratio))

BloomBucketsBuilderFprOp ==
    /\ cfg.ctor = "BloomBucketsBuilder::fpr" /\ built = Pending
    /\ Return(BloomBucketsBuilderFpr(cfg.ratio))

BloomWithFprOp ==
    /\ cfg.ctor = "Bloom::with_fpr" /\ built = Pending
    /\ Return(BloomWithFpr(cfg.ratio))

BucketsBuilderLoadFactorOp ==
    /\ cfg.ctor = "BucketsBuilder::load_factor" /\ built = Pending
    /\ Return(BucketsBuilderLoadFactor(cfg.ratio))

BloomBucketsBuilderLoadFactorOp ==
    /\ cfg.ctor = "BloomBucketsBuilder::load_factor" /\ built = Pending
    /\ Return(BloomBucketsBuilderLoadFactor(cfg.ratio))

BucketsWithLoadFactorOp ==
    /\ cfg.ctor = "Buckets::with_load_factor" /\ built = Pending
    /\ Return(BucketsWithLoadFactor(cfg.capacity, cfg.ratio))

\* a filter has been constructed and no call on it has panicked
FilterInUse ==
    /\ cfg.ctor \in FilterCtors
    /\ built.state = "returned" /\ built.result.ok
    /\ ~faulted

\* BloomFilter::insert on the constructed filter
FilterInsertOp ==
    /\ FilterInUse
    /\ \E value \in Items :
        IF FilterFaults(filter)
        THEN faulted' = TRUE /\ UNCHANGED <<filter, inserted>>
        ELSE /\ filter' = BloomInsert(filter, value)
             /\ inserted' = inserted \cup {value}
             /\ faulted' = faulted
    /\ UNCHANGED <<protoVars, latticeVars, callerVars, cfg, built, query>>

\* BloomFilter::contains on the constructed filter
FilterContainsOp ==
    /\ FilterInUse
    /\ \E value \in Items :
        IF FilterFaults(filter)
        THEN faulted' = TRUE /\ query' = query
        ELSE /\ query' = [op |-> "contains", value |-> value,
                          was_inserted |-> value \in inserted,
                          found |-> BloomContains(filter, value)]
             /\ faulted' = faulted
    /\ UNCHANGED <<protoVars, latticeVars, callerVars, cfg, built, filter, inserted>>

NextConstruct ==
    \/ BloomFilterNewOp \/ WithCapacityAndFprOp
    \/ BloomBuilderFprOp \/ BloomBucketsBuilderFprOp \/ BloomWithFprOp
    \/ BucketsBuilderLoadFactorOp \/ BloomBucketsBuilderLoadFactorOp
    \/ BucketsWithLoadFactorOp
    \/ FilterInsertOp \/ FilterContainsOp

SpecConstruct == InitConstructSpec /\ [][NextConstruct]_vars

(***************************************************************************)
(* Properties of the lattice types.                                        *)
(***************************************************************************)
\* C6: for GSet and GCounter, join is idempotent, commutative and
\* associative, and the empty value is its identity.
C6_JoinIsSemilattice ==
    (kind \in {"gset", "gcounter"} /\ out.op = "join") =>
        LET a == IF kind = "gset" THEN gsA ELSE gcA
        IN /\ out.aa = a
           /\ out.ab = out.ba
           /\ out.ab_c = out.a_bc
           /\ out.a_e = a /\ out.e_a = a

\* joins of GCounters that share an id with different counts and differ in ids
C6_Witness ==
    /\ kind = "gcounter" /\ out.op = "join"
    /\ \E id \in DOMAIN gcA \cap DOMAIN gcB : gcA[id] > gcB[id]
    /\ DOMAIN gcB \ DOMAIN gcA # {}
    /\ gcC # GCounterNew
    /\ out.ab # gcA /\ out.ab # gcB

\* C7: for two AWSet replicas, each built from empty by its own inserts and
\* removes, joining b into a and a into b give the same state (the same
\* uid -> value insert map and the same tombstone set).
C7_AWSetJoinCommutes ==
    (kind = "awset" /\ out.op = "join") => out.ab = out.ba

\* no dot of the cloud is covered by the clock or next in line for it
IsCompacted(a) ==
    \A d \in a.cloud :
        d[1] \in DOMAIN a.clock =>
            ~(a.clock[d[1]] >= d[2] \/ a.clock[d[1]] = d[2] - 1)

\* a.join(a) returned and left a as it was
JoinSelfUnchanged == ~out.after.panic /\ DotEq(out.after, dcA)

\* C8, as claimed: for every DotContext a, whatever its clock and cloud,
\* a.join(a) leaves a unchanged.
C8_DotJoinIdempotent ==
    (kind = "dot" /\ out.op = "join_self") => JoinSelfUnchanged

\* C8, amended: for every compacted DotContext a (no dot (I, n) of the cloud
\* with clock[I] >= n or clock[I] = n - 1), a.join(a) leaves a unchanged.
C8_DotJoinIdempotentCompacted ==
    (kind = "dot" /\ out.op = "join_self" /\ IsCompacted(dcA)) => JoinSelfUnchanged

\* a compacted context with a detached dot of an id its clock knows, joined with itself
C8_Witness ==
    /\ kind = "dot" /\ out.op = "join_self"
    /\ IsCompacted(dcA)
    /\ \E d \in dcA.cloud : d[1] \in DOMAIN dcA.clock
    /\ JoinSelfUnchanged

\* an AWSet piece is single: one inserted entry or one tombstone
SinglePiece(p) == Cardinality(DOMAIN p.inserted) + Cardinality(p.removed) = 1

\* C9: for every GSet, GCounter and AWSet value a, split(a) returns exactly
\* one single-piece decomposition per element / entry / insert uid /
\* tombstone uid, and joining them all into an empty value gives a.
C9_SplitRoundTrip ==
    out.op = "split" =>
        /\ kind = "gset" =>
            /\ Len(out.pieces) = Cardinality(gsA)
            /\ \A i \in DOMAIN out.pieces : Len(out.pieces[i]) = 1
            /\ {out.pieces[i][1] : i \in DOMAIN out.pieces} = gsA
            /\ out.rebuilt = gsA
        /\ kind = "gcounter" =>
            /\ Len(out.pieces) = Cardinality(DOMAIN gcA)
            /\ \A i \in DOMAIN out.pieces : Len(out.pieces[i]) = 1
            /\ {out.pieces[i][1] : i \in DOMAIN out.pieces} = Entries(gcA)
            /\ out.rebuilt = gcA
        /\ kind = "awset" =>
            /\ Len(out.pieces)
                   = Cardinality(DOMAIN awA.inserted) + Cardinality(awA.removed)
            /\ \A i \in DOMAIN out.pieces : SinglePiece(out.pieces[i])
            /\ \A id \in DOMAIN awA.inserted :
                   \E i \in DOMAIN out.pieces :
                       out.pieces[i] = [inserted |-> (id :> awA.inserted[id]),
                                        removed |-> {}]
            /\ \A id \in awA.removed :
                   \E i \in DOMAIN out.pieces :
                       out.pieces[i] = [inserted |-> <<>>, removed |-> {id}]
            /\ out.rebuilt = awA

\* the split of an AWSet with two inserted entries, one of them tombstoned
C9_Witness ==
    /\ kind = "awset" /\ out.op = "split"
    /\ Cardinality(DOMAIN awA.inserted) = 2 /\ Cardinality(awA.removed) = 1
    /\ Len(out.pieces) = 3
    /\ out.rebuilt = awA

\* the elements / entries of the pieces of split(a) that b does not dominate:
\* joining the piece into b changes b
GSetNotDominated(a, b) ==
    {p[1] : p \in {q \in SeqRange(CrateGSetSplit(a)) : CrateGSetJoin(b, <<q>>) # b}}

GCounterNotDominated(a, b) ==
    {p[1] : p \in {q \in SeqRange(GCounterSplit(a)) : GCounterJoin(b, <<q>>) # b}}

\* C10: for GSet and GCounter, difference(a, b) is exactly the pieces of
\* split(a) not dominated by b; join(b, difference(a, b)) == join(a, b);
\* difference(a, a) is empty; after a mutual exchange of the differences
\* computed on the pre-states both replicas are equal.
C10_DifferenceCorrect ==
    (kind \in {"gset", "gcounter"} /\ out.op = "difference") =>
        /\ kind = "gset" =>
            /\ SeqRange(out.ab) = GSetNotDominated(gsA, gsB)
            /\ Len(out.ab) = Cardinality(GSetNotDominated(gsA, gsB))
        /\ kind = "gcounter" =>
            /\ SeqRange(out.ab) = GCounterNotDominated(gcA, gcB)
            /\ Len(out.ab) = Cardinality(GCounterNotDominated(gcA, gcB))
        /\ out.b_after = out.joined
        /\ out.aa = <<>>
        /\ out.a_after = out.b_after

\* two GCounters, each ahead of the other on some id, after the exchange
C10_Witness ==
    /\ kind = "gcounter" /\ out.op = "difference"
    /\ \E id \in DOMAIN gcA \cap DOMAIN gcB : gcA[id] > gcB[id]
    /\ \E id \in DOMAIN gcA \cap DOMAIN gcB : gcB[id] > gcA[id]
    /\ Len(out.ab) = 1
    /\ out.a_after = out.b_after /\ out.a_after # gcA /\ out.b_after # gcB

\* replica r inserted x and removed it again, replica s inserted x on its own
AddWinsCase(r, s, x) ==
    /\ \E id \in DOMAIN r.inserted : r.inserted[id] = x
    /\ ~AWSetContains(r, x)
    /\ AWSetContains(s, x)

\* C11: add wins.  If one AWSet replica inserts x and then removes it while
\* the other inserts x on its own state, then after each replica joins the
\* other's full state both replicas contain x.
C11_AddWins ==
    (kind = "awset" /\ out.op = "join") =>
        \A x \in Values :
            (AddWinsCase(awA, awB, x) \/ AddWinsCase(awB, awA, x)) =>
                AWSetContains(out.ab, x) /\ AWSetContains(out.ba, x)

\* the uid an insert has just minted on a replica, as a set
Minted(before, after) == DOMAIN after.inserted \ DOMAIN before.inserted

\* an insert step gives the replica one more entry, under a uid the other
\* replica has not used
InsertMintsFreshUid ==
    /\ (kind = "awset" /\ awA'.inserted # awA.inserted) =>
          /\ Cardinality(Minted(awA, awA')) = 1
          /\ Minted(awA, awA') \cap DOMAIN awB.inserted = {}
    /\ (kind = "awset" /\ awB'.inserted # awB.inserted) =>
          /\ Cardinality(Minted(awB, awB')) = 1
          /\ Minted(awB, awB') \cap DOMAIN awA.inserted = {}

\* C12: across AWSet replicas evolved from empty, no two distinct insert
\* operations, on the same replica or on different replicas, are assigned
\* the same uid.
C12_UidsUnique == [][InsertMintsFreshUid]_vars

\* a remove step on a replica leaves the value of the tombstoned uid absent
RemoveTombstonesAll(before, after) ==
    \A id \in after.removed \ before.removed :
        ~AWSetContains(after, before.inserted[id])

\* C13: after remove(v) on an AWSet every uid that mapped to v before the
\* call is tombstoned, so contains(v) is false immediately afterwards, even
\* when v had been inserted under several uids.
C13_RemoveTombstonesEveryUid ==
    [][kind = "awset" =>
          RemoveTombstonesAll(awA, awA') /\ RemoveTombstonesAll(awB, awB')]_vars

\* the values observable in exactly one of two sets of elements
SymmetricDifference(S, T) == (S \ T) \cup (T \ S)

\* C14: for GSet and AWSet values a and b, false_matches(a, b) is the number
\* of distinct values in the symmetric difference of the observable elements
\* of a and b; in particular it is 0 iff elements(a) == elements(b).
C14_FalseMatchesCounts ==
    out.op = "false_matches" =>
        LET ea == IF kind = "gset" THEN gsA ELSE AWSetElements(awA)
            eb == IF kind = "gset" THEN gsB ELSE AWSetElements(awB)
        IN /\ out.n = Cardinality(SymmetricDifference(ea, eb))
           /\ out.n = 0 <=> ea = eb

\* C15: extract(d) returns the carrier value exactly when d holds one piece
\* and returns an error when d is empty or holds more than one piece; every
\* decomposition returned by split(a) extracts successfully.
C15_ExtractSingleton ==
    out.op = "extract" =>
        /\ out.whole.ok <=> Len(out.delta) = 1
        /\ out.whole.ok => out.whole.value = out.delta[1]
        /\ ~out.empty.ok
        /\ \A i \in DOMAIN out.pieces :
               out.each[i].ok /\ out.each[i].value = out.pieces[i][1]

\* extract on a delta of two pieces fails while both pieces of the split extract
C15_Witness ==
    /\ out.op = "extract"
    /\ Len(out.delta) = 2 /\ ~out.whole.ok
    /\ Len(out.pieces) = 2 /\ out.each[1].ok /\ out.each[2].ok
    /\ out.each[1].value # out.each[2].value

\* C16: after a single compact() call that returns, on any DotContext, no
\* dot (I, n) remaining in the cloud has clock[I] >= n or clock[I] = n - 1:
\* chains of consecutive dots are absorbed in one pass.
C16_CompactInOnePass ==
    (kind = "dot" /\ out.op = "compact" /\ ~out.after.panic) =>
        IsCompacted(out.after)

\* a chain of two consecutive dots right above the clock, absorbed by one call
C16_Witness ==
    /\ kind = "dot" /\ out.op = "compact" /\ ~out.after.panic
    /\ \E id \in DOMAIN dcA.clock :
        /\ dcA.clock[id] = 0
        /\ {<<id, 1>>, <<id, 2>>} \subseteq dcA.cloud
        /\ out.after.clock[id] = 2
        /\ \A d \in out.after.cloud : d[1] # id

(***************************************************************************)
(* Properties of construction and of the Bloom filter.                     *)
(***************************************************************************)
\* C17: after insert(x) on a Bloom filter, contains(x) is true and stays
\* true after any sequence of further insert calls: bits are only ever set,
\* never cleared.
C17_NoFalseNegatives ==
    /\ \A x \in inserted : BloomContains(filter, x)
    /\ (query.op = "contains" /\ query.was_inserted) => query.found

\* two items probing different bits were inserted, one was then looked up
C17_Witness ==
    /\ Cardinality(inserted) >= 2
    /\ \E x, y \in inserted :
        filter.hashers[x] # filter.hashers[y] /\ filter.m > 1
    /\ query.op = "contains" /\ query.was_inserted /\ query.found

\* C18: every successfully constructed Bloom filter, including one built
\* with capacity 0, has a bit array of at least 1 bit, so insert and contains
\* never fail after construction.
C18_FilterHasABit ==
    (cfg.ctor \in FilterCtors /\ built.state = "returned" /\ built.result.ok) =>
        filter.m >= 1 /\ ~faulted

\* C19: constructing a Bloom filter, or configuring a Bloom / BloomBuckets
\* protocol, with a false positive rate outside the open interval (0, 1),
\* including exactly 0.0 and exactly 1.0, fails at construction.
C19_FprOutOfRangeRejected ==
    (/\ cfg.ctor \in FilterCtors \cup FprCtors
     /\ built.state = "returned"
     /\ ~(RatioLess(Zero, cfg.ratio) /\ RatioLess(cfg.ratio, One))) =>
        ~built.result.ok

\* C20: every constructor that accepts a load factor rejects any
\* load_factor <= 0, including exactly 0.0, at construction.
C20_LoadFactorRejected ==
    (/\ cfg.ctor \in LoadFactorCtors
     /\ built.state = "returned"
     /\ RatioLeq(cfg.ratio, Zero)) =>
        ~built.result.ok

(***************************************************************************)
(* Properties of the buckets.                                              *)
(***************************************************************************)
\* the least integer not below len * lf, and at least one
CeilClamped(len, lf) == Max((len * lf[1] + lf[2] - 1) \div lf[2], 1)

\* the items held in a vector of buckets
BucketItems(buckets) ==
    UNION {UNION {b[key] : key \in DOMAIN b} : b \in SeqRange(buckets)}

\* C21: the number of buckets is the ceiling of load_factor * |V|, clamped
\* to at least one: for Buckets V is the local replica given to the
\* builder, for BloomBuckets V is the common state the remote step buckets
C21_BucketCountPolicy ==
    /\ proto = "Buckets" => /\ num_buckets = CeilClamped(Cardinality(local0), load_factor)
                            /\ num_buckets >= 1
    /\ (proto = "BloomBuckets" /\ remote_buckets # <<>>) =>
           /\ num_buckets = CeilClamped(Cardinality(BucketItems(remote_buckets)),
                                        load_factor)
           /\ num_buckets >= 1

\* C22: the hasher being injective, two buckets of the same index whose
\* fingerprints are equal hold the same pieces
C22_FingerprintInjective ==
    \A i \in DOMAIN local_buckets \cap DOMAIN remote_buckets :
        FingerprintString(local_buckets[i]) = FingerprintString(remote_buckets[i])
            => local_buckets[i] = remote_buckets[i]

\* C23: a bucket's fingerprint depends on the pieces it holds and on the
\* hasher, not on the order of dispatch: two peers with the same pieces
\* compute equal fingerprints for every bucket
C23_FingerprintOrderFree ==
    out.op = "dispatch" => out.first_hashes = out.second_hashes

\* three pieces in one bucket, dispatched in two different orders
C23_Witness ==
    /\ out.op = "dispatch"
    /\ out.num_buckets = 1 /\ Len(out.first) = 3
    /\ out.first[1] = out.second[3]
    /\ \A x, y \in Items : out.hasher[x] = out.hasher[y] => x = y

(***************************************************************************)
(* A DefaultTracker driven directly: after DefaultTracker::new, any        *)
(* sequence of register and finish calls, up to MaxCalls of them.  The     *)
(* tracker's fields are events and diffs; calls records what was called.   *)
(***************************************************************************)
MaxCalls == 4
MaxBytes == 1
MaxDiffs == 2

\* the events a caller can build with NetworkEvent::{local_to_remote, remote_to_local}
NetworkEvents ==
    {LocalToRemote(b) : b \in 0..MaxBytes} \cup {RemoteToLocal(b) : b \in 0..MaxBytes}

\* tracker.register(e)
TrackerRegisterOp ==
    /\ proto = "none" /\ Len(calls) < MaxCalls
    /\ \E e \in NetworkEvents :
          /\ events' = Register(events, diffs, e)
          /\ calls' = Append(calls, [call |-> "register", event |-> e])
    /\ UNCHANGED <<proto, local, remote, local0, remote0, load_factor, num_buckets,
                   hasher, pc, diffs, finish_calls, local_split, local_filter,
                   remote_filter, local_unseen, remote_unseen, local_escaped,
                   local_buckets, remote_buckets, non_matching_buckets, runs>>
    /\ UNCHANGED <<latticeVars, constructVars>>

\* tracker.finish(d)
TrackerFinishOp ==
    /\ proto = "none" /\ Len(calls) < MaxCalls
    /\ \E d \in 0..MaxDiffs :
          /\ diffs' = Finish(diffs, d)
          /\ calls' = Append(calls, [call |-> "finish", diffs |-> d])
    /\ finish_calls' = finish_calls + 1
    /\ UNCHANGED <<proto, local, remote, local0, remote0, load_factor, num_buckets,
                   hasher, pc, events, local_split, local_filter,
                   remote_filter, local_unseen, remote_unseen, local_escaped,
                   local_buckets, remote_buckets, non_matching_buckets, runs>>
    /\ UNCHANGED <<latticeVars, constructVars>>

\* DefaultTracker::new, then nothing but calls to the tracker
InitTrackerSpec == NoSession /\ NoLattice /\ NoConstruct /\ NoCalls /\ NoRuns

NextTracker == TrackerRegisterOp \/ TrackerFinishOp

SpecTracker == InitTrackerSpec /\ [][NextTracker]_vars

(***************************************************************************)
(* Properties of the tracker.                                              *)
(***************************************************************************)
\* the positions in calls of the finish calls
FinishCalls == {i \in DOMAIN calls : calls[i].call = "finish"}

\* the position of the first finish call
FirstFinish == CHOOSE i \in FinishCalls : \A j \in FinishCalls : i <= j

\* the events passed to the register calls among the first n calls, in call order
RegisteredIn(n) ==
    LET regs == SelectSeq(SubSeq(calls, 1, n), LAMBDA c : c.call = "register")
    IN [i \in DOMAIN regs |-> regs[i].event]

\* C24: once finish(d) has been called, whatever is called afterwards, the
\* event list is the one of that moment and the latched diffs are d
C24_FinishLatches ==
    FinishCalls # {} =>
        /\ diffs = {calls[FirstFinish].diffs}
        /\ events = RegisteredIn(FirstFinish)

\* a finish, then a register and a finish with another count
C24_Witness ==
    /\ FinishCalls # {}
    /\ \E i, j \in DOMAIN calls :
          /\ FirstFinish < i /\ FirstFinish < j
          /\ calls[i].call = "register"
          /\ calls[j].call = "finish" /\ calls[j].diffs # calls[FirstFinish].diffs
    /\ RegisteredIn(FirstFinish) # <<>>

\* Ready (0), Recording (1), Finished (2)
TrackerPhase == IF diffs # {} THEN 2 ELSE IF events # <<>> THEN 1 ELSE 0

\* C25: is_ready() is true exactly when no event has been registered and
\* finish has not been called; the tracker moves only forward through
\* Ready, Recording, Finished, and is_ready() never becomes true again
C25_ReadyOnlyAtStart ==
    /\ [](is_ready(events, diffs) <=>
             (RegisteredIn(Len(calls)) = <<>> /\ FinishCalls = {}))
    /\ [][/\ TrackerPhase' >= TrackerPhase
          /\ ~is_ready(events, diffs) => ~is_ready(events', diffs')]_vars

\* a tracker taken through the three phases, and called again after that
C25_Witness ==
    /\ Len(calls) = MaxCalls
    /\ calls[1].call = "register" /\ calls[2].call = "finish"
    /\ calls[MaxCalls].call = "register"
    /\ ~is_ready(events, diffs)

\* C26: while the tracker is not finished, register(e) appends e at the
\* end: events() lists the registered events in call order, and what was
\* registered is never reordered, modified or removed
C26_RegisterAppends ==
    /\ [](FinishCalls = {} => events = RegisteredIn(Len(calls)))
    /\ [][/\ Len(events) <= Len(events')
          /\ SubSeq(events', 1, Len(events)) = events]_vars

\* three different events registered in a row
C26_Witness ==
    /\ FinishCalls = {} /\ Len(events) >= 3
    /\ events[1] # events[2] /\ events[2] # events[3] /\ events[1] # events[3]

(***************************************************************************)
(* Properties of the events a session registers.                           *)
(***************************************************************************)
\* C27: Baseline.sync registers exactly two events, in this order:
\* LocalToRemote of size_of(local) bytes and RemoteToLocal of
\* size_of(remote.difference(local)) bytes, on the replicas as sync found them
C27_BaselineEvents ==
    (proto = "Baseline" /\ pc # "not_ready") =>
        LET expected == <<LocalToRemote(size_of(local0)),
                          RemoteToLocal(size_of(GSetDifference(remote0, local0)))>>
        IN /\ Len(events) <= 2
           /\ events = SubSeq(expected, 1, Len(events))
           /\ pc = "done" => events = expected

\* a finished Baseline session in which each replica held what the other lacked
C27_Witness ==
    /\ proto = "Baseline" /\ pc = "done"
    /\ local0 \ remote0 # {} /\ remote0 \ local0 # {}
    /\ Len(events) = 2 /\ events[2].bytes > 1

\* the buckets of the two replicas as sync found them, under the session's
\* hasher and bucket count, and the indices whose fingerprints differ
LocalBuckets0 == BuildBuckets(local0, hasher, num_buckets)
RemoteBuckets0 == BuildBuckets(remote0, hasher, num_buckets)
Mismatching ==
    {i \in 1..num_buckets : Hashes(LocalBuckets0)[i] # Hashes(RemoteBuckets0)[i]}

\* the sum of f[i] over the mismatching buckets i
SumOverMismatching(f) ==
    SumSeq([i \in 1..num_buckets |-> IF i \in Mismatching THEN f[i] ELSE 0])

MismatchingNow ==
    {i \in DOMAIN local_buckets \cap DOMAIN remote_buckets :
        Hashes(local_buckets)[i] # Hashes(remote_buckets)[i]}

\* the aggregated sizes of the buckets of a vector that mismatch
CarriedSize(buckets) ==
    SumSeq([i \in DOMAIN buckets |->
               IF i \in MismatchingNow THEN size_of(Aggregate(buckets[i])) ELSE 0])

\* the bucket-content message has just been registered
BucketsContentSent == proto = "Buckets" /\ pc = "buckets_local"
BloomBucketsContentSent == proto = "BloomBuckets" /\ pc = "bloombuckets_remote_join"

\* C29 as stated: a bucket-content message is accounted as the aggregated
\* sizes of the buckets it carries plus 8 bytes per mismatching index
C29_ContentMessageEightPerIndex ==
    /\ BucketsContentSent =>
           events[2] = RemoteToLocal(8 * Cardinality(MismatchingNow)
                                     + CarriedSize(remote_buckets))
    /\ BloomBucketsContentSent =>
           events[3] = LocalToRemote(8 * Cardinality(MismatchingNow)
                                     + CarriedSize(local_buckets)
                                     + SizeOfAll(remote_unseen))

\* C29 amended: a bucket-content message is accounted as the aggregated
\* sizes of the buckets it carries plus one byte for each of the B buckets,
\* matching or not; BloomBuckets adds the decompositions the remote filter
\* did not admit, which travel in the same message
C29_ContentMessageOnePerBucket ==
    /\ BucketsContentSent =>
           events[2] = RemoteToLocal(Len(remote_buckets) + CarriedSize(remote_buckets))
    /\ BloomBucketsContentSent =>
           events[3] = LocalToRemote(Len(local_buckets) + CarriedSize(local_buckets)
                                     + SizeOfAll(remote_unseen))

\* a BloomBuckets content message over buckets of which one matches and one
\* mismatches and carries something
C29_Witness ==
    /\ BloomBucketsContentSent
    /\ MismatchingNow # {} /\ Cardinality(MismatchingNow) < Len(local_buckets)
    /\ CarriedSize(local_buckets) > 0

\* the number of events a whole run of each protocol registers
FullSequence ==
    CASE proto = "Baseline" -> 2
      [] proto = "Bloom" -> 3
      [] proto = "Buckets" -> 3
      [] proto = "BloomBuckets" -> 4
      [] OTHER -> 0

\* a second run given a ready tracker, started on replicas that were equal
SecondRunOnConverged ==
    proto \in Protocols /\ runs = 2 /\ pc # "not_ready" /\ local0 = remote0

\* C30: a second run with a new tracker on replicas with local == remote
\* leaves both replicas unchanged, registers the protocol's full sequence of
\* events and finishes with diffs == 0
C30_SecondRunIdempotent ==
    SecondRunOnConverged =>
        /\ local = local0 /\ remote = remote0
        /\ pc # "panic"
        /\ pc = "done" => /\ Len(events) = FullSequence
                          /\ diffs = {0}

\* a second run of an exact protocol, started on replicas that were equal
\* and come to its end
ExactSecondRunDone ==
    SecondRunOnConverged /\ proto \in {"Baseline", "Buckets"} /\ pc = "done"

\* C31 as stated: in a second run of Baseline or Buckets on converged
\* replicas no LocalToRemote event carries replica elements; the
\* fingerprint vector of Buckets, 8 * B bytes, is metadata
C31_NoForwardStateBytes ==
    ExactSecondRunDone =>
        /\ proto = "Baseline" => events[1].bytes = 0
        /\ proto = "Buckets" => /\ events[1].bytes = 8 * num_buckets
                                /\ events[3].bytes = 0

\* C31 amended: that holds of Buckets; the LocalToRemote event of Baseline
\* carries the whole local replica in every run
C31_NoForwardStateBytesBuckets ==
    ExactSecondRunDone =>
        /\ proto = "Baseline" => events[1] = LocalToRemote(SumLen(local0))
        /\ proto = "Buckets" => /\ events[1] = LocalToRemote(8 * num_buckets)
                                /\ events[3] = LocalToRemote(0)

\* a second run of Buckets over several buckets, on replicas that the first
\* run had to bring together
C31_Witness ==
    /\ ExactSecondRunDone /\ proto = "Buckets"
    /\ num_buckets >= 2 /\ Cardinality(local0) >= 2
    /\ Len(events) = 3

\* the bytes of all the events registered
TotalBytes == SumSeq([i \in DOMAIN events |-> events[i].bytes])

\* C32: for Baseline and Buckets, the bytes of all the events of one sync
\* sum to at least the byte length of the elements in the symmetric
\* difference of the replicas as sync found them
C32_TelemetryCoversDifference ==
    (proto \in {"Baseline", "Buckets"} /\ pc = "done") =>
        TotalBytes >= SumLen((local0 \ remote0) \cup (remote0 \ local0))

\* the direction of the i-th event of a sync: to the remote replica first,
\* then back, and so on
DirectionAt(i) == IF i % 2 = 1 THEN "LocalToRemote" ELSE "RemoteToLocal"

CalledNotReady == runs' # runs /\ (events' # <<>> \/ diffs' # {})

\* C34: sync called with a tracker that is not ready fails on its first
\* assertion: no event is registered (the tracker is as the caller gave
\* it) and neither replica is modified
C34_NotReadyRejected ==
    /\ [][CalledNotReady => /\ pc' = "not_ready"
                            /\ local' = local /\ remote' = remote]_vars
    /\ [](pc = "not_ready" => [events |-> events, diffs |-> diffs] \in Trackers)

\* sync refused a tracker that holds an event and is not finished, on a
\* protocol whose first run had changed both replicas
C34_Witness ==
    /\ pc = "not_ready" /\ events # <<>> /\ diffs = {}
    /\ local # local0 /\ remote # remote0

(***************************************************************************)
(* Properties of the dot contexts.                                         *)
(***************************************************************************)
\* the dots looked up: every id, every sequence number of the model and one more
Dots == Ids \X (0..(MaxSeq + 1))

\* C35: after a.join(b), a contains a dot iff a or b contained it before:
\* the larger clock, the union of the clouds and the compaction neither
\* drop a covered dot nor cover a new one
C35_JoinCoversUnion ==
    (out.op = "dot_join" /\ ~out.after.panic) =>
        \A d \in Dots :
            DotContains(out.after, d) <=> (DotContains(dcA, d) \/ DotContains(out.other, d))

\* a join in which the clock of the other context let the compaction fold a
\* detached dot of self, and a detached dot of the other stayed detached
C35_Witness ==
    /\ out.op = "dot_join" /\ ~out.after.panic
    /\ \E d \in dcA.cloud : d \notin out.after.cloud /\ ~DotContains(out.other, d)
                            /\ d[1] \in DOMAIN dcA.clock /\ dcA.clock[d[1]] < d[2] - 1
    /\ \E d \in out.other.cloud : d \in out.after.cloud /\ d \notin dcA.cloud

\* C36 as stated: next(id) returns a sequence number n such that the dot
\* (id, n) was not contained before the call and is contained after it;
\* successive calls for one id return strictly increasing numbers, starting
\* at 1 for an id absent from the clock
C36_NextIsFresh ==
    out.op = "next" =>
        /\ ~DotContains(dcA, <<out.id, out.first>>)
        /\ DotContains(out.after_first, <<out.id, out.first>>)
        /\ ~DotContains(out.after_first, <<out.id, out.second>>)
        /\ DotContains(out.after_second, <<out.id, out.second>>)
        /\ out.second > out.first
        /\ out.id \notin DOMAIN dcA.clock => out.first = 1

\* the cloud holds no dot of id ahead of the clock
NoDotAhead(self, id) ==
    \A d \in self.cloud :
        d[1] = id => (id \in DOMAIN self.clock /\ d[2] <= self.clock[id])

\* C36 amended: that holds of the contexts whose cloud holds no dot of id
\* ahead of the clock; next does not look at the cloud
C36_NextIsFreshNoDotAhead ==
    (out.op = "next" /\ NoDotAhead(dcA, out.id)) => C36_NextIsFresh

\* next called for an id of the clock, in a context with detached dots of
\* another id and a dot of this id behind the clock
C36_Witness ==
    /\ out.op = "next" /\ NoDotAhead(dcA, out.id)
    /\ out.id \in DOMAIN dcA.clock /\ out.first >= 2
    /\ \E d \in dcA.cloud : d[1] = out.id
    /\ \E d \in dcA.cloud : d[1] # out.id

\* C37: at every step of every protocol each replica holds all the elements
\* it held when sync was called and only elements of the two replicas of
\* that moment: nothing is lost, nothing is invented
C37_NothingLostNothingInvented ==
    proto \in Protocols =>
        /\ local0 \subseteq local /\ local \subseteq Union0
        /\ remote0 \subseteq remote /\ remote \subseteq Union0

\* a BloomBuckets sync that returned after both replicas had grown
C37_Witness ==
    /\ proto = "BloomBuckets" /\ pc = "done"
    /\ local0 # {} /\ remote0 # {}
    /\ local # local0 /\ remote # remote0

\* C38: in Bloom.sync every shipped piece is new to its receiver: what the
\* remote replica ships was absent from the local replica, what the local
\* replica ships was absent from the remote replica, as sync found them,
\* whatever false positives the filters produce
C38_BloomShipsOnlyNews ==
    proto = "Bloom" =>
        /\ \A i \in DOMAIN local_unseen : local_unseen[i] \cap local0 = {}
        /\ \A i \in DOMAIN remote_unseen : remote_unseen[i] \cap remote0 = {}

\* a Bloom sync between replicas that shared a piece, in which pieces went
\* both ways
C38_Witness ==
    /\ proto = "Bloom" /\ pc = "done"
    /\ local_unseen # <<>> /\ remote_unseen # <<>>
    /\ local0 \cap remote0 # {}

\* the elements of a sequence, as a set
YieldedSet(yielded) == {yielded[i] : i \in DOMAIN yielded}

\* C39: iterating elements() ends without failing and has yielded each
\* element of the set exactly once, for sets of any size
C39_ElementsYieldsAll ==
    (kind = "gset" /\ out.op = "elements") =>
        /\ ~out.drained.panic
        /\ YieldedSet(out.drained.yielded) = gsA
        /\ Len(out.drained.yielded) = Cardinality(gsA)

\* C40: AWSet equality agrees with the observable content and is symmetric:
\* a == b iff elements(a) = elements(b), and a == b iff b == a
C40_EqAgreesWithElements ==
    (kind = "awset" /\ out.op = "eq") =>
        /\ out.ab <=> (AWSetElements(awA) = AWSetElements(awB))
        /\ out.ab <=> out.ba

====
